---- MODULE Spec2Model ----
(***************************************************************************)
(* A model of stac-merkle-tree-cli: the object hasher, the Merkle reducer  *)
(* (builder and verifier copies), the tree builder, the tree verifier and  *)
(* the inclusion-proof verifier.                                           *)
(*                                                                         *)
(* Text (hash names, hex digests) is a sequence of one-character strings,  *)
(* so that case folding, hyphen removal, hex decoding and the              *)
(* lexicographic sort of Python strings are computed, not assumed.         *)
(***************************************************************************)
EXTENDS Integers, Sequences, FiniteSets, TLC

VARIABLES
    \* Merkle reducer
    hashes,          \* the digest list handed to compute_merkle_root
    hash_method,     \* the hash method handed to the call
    merkle_root,     \* outcome of the last compute_merkle_root call
    levels,          \* the values current_level took during the last call
    call_hashes,     \* the digest list as it was passed to the last call
    prev_hashes,     \* the digest list as it was passed to the first call
    prev_root,       \* ... and the outcome of that call
    \* Object hasher
    stac_object,     \* the document handed to compute_merkle_object_hash
    object_hash,     \* outcome of the call on the document as it is now
    base_hash,       \* outcome of the first call
    edits,           \* the kinds of edit the document got since that call
    \* Inclusion-proof verifier
    collection_hash,   \* the target digest handed to verify_merkle_proof
    proof_hashes,      \* the sibling digests of the path
    proof_positions,   \* the side of each sibling
    proof_merkle_root, \* the claimed root
    hash_function,     \* the hash function name handed to the call
    is_valid,          \* outcome of the last verify_merkle_proof call
    current_hash,      \* the values current_hash took during that call
    tampers,           \* the changes made to the proof since it was derived
    merkle_root_option, \* the root the caller gave as --merkle-root, if any
    main_outcome,       \* what the command reported, and the root it compared with
    \* Tree builder and tree verifier
    catalog_dir,         \* the directory that holds catalog.json, and all below it
    root_hash_method,    \* the hash method handed to process_catalog
    merkle_tree,         \* the summary the build returned, as persisted
    verification_result, \* outcome of the last verify_merkle_tree call
    discrepancies,       \* the discrepancies that call recorded
    calculated_root,     \* the root that call recomputed for the top node
    tree_edits,          \* the changes made to documents or summary since the build
    relisted_dir,        \* the same documents, as another run enumerates them
    relisted_tree,       \* the summary the build of that run returned
    relists,             \* how many listings that run enumerates in another order
    build_log,           \* the steps of the build, in the order it took them
    rebuilt_dir,         \* the documents after a second build on what the first wrote
    rebuilt_tree         \* the summary that second build returned

rootVars == <<hashes, hash_method, merkle_root, levels, call_hashes,
              prev_hashes, prev_root>>

hashVars == <<stac_object, object_hash, base_hash, edits>>

proofVars == <<collection_hash, proof_hashes, proof_positions,
               proof_merkle_root, hash_function, is_valid, current_hash, tampers,
               merkle_root_option, main_outcome>>

mainVars == <<merkle_root_option, main_outcome>>

treeVars == <<catalog_dir, root_hash_method, merkle_tree, verification_result,
              discrepancies, calculated_root, tree_edits,
              relisted_dir, relisted_tree, relists,
              build_log, rebuilt_dir, rebuilt_tree>>

relistVars == <<relisted_dir, relisted_tree, relists>>

rebuildVars == <<rebuilt_dir, rebuilt_tree>>

vars == <<rootVars, hashVars, proofVars, treeVars>>

-----------------------------------------------------------------------------
(* Bounds of the exploration *)

\* Longest digest list handed to the reducer.
MaxHashes == 6

\* Longest digest list whose order the caller permutes between two calls.
MaxPermLen == 3

\* Most edits a document gets between two object hash computations.
MaxEdits == 2

\* Longest digest list an inclusion proof is derived from.
MaxLeaves == 5

\* Most changes made to a derived proof before it is verified.
MaxTampers == 1

\* Most changes made to the documents or to the summary after a build.
MaxTreeEdits == 1

\* Directory listings a second run enumerates in another order.
MaxRelists == 1

-----------------------------------------------------------------------------
(* Characters and text *)

\* The characters the model uses, in code point order (Python compares
\* strings code point by code point).
Alphabet ==
    <<" ", "-", "0", "1", "2", "3", "4", "5", "6", "7", "8", "9",
      "A", "B", "C", "D", "E", "F", "G", "H", "I", "L", "M", "R", "S", "T",
      "a", "b", "c", "d", "e", "f", "g", "h", "i", "l", "m", "p", "r", "s",
      "t", "u", "x">>

CharSet == {Alphabet[i] : i \in 1..Len(Alphabet)}

OrdTable == [c \in CharSet |-> CHOOSE i \in 1..Len(Alphabet) : Alphabet[i] = c]

Ord(c) == OrdTable[c]

UpperChars == <<"A", "B", "C", "D", "E", "F", "G", "H", "I", "L", "M", "R", "S", "T">>
LowerChars == <<"a", "b", "c", "d", "e", "f", "g", "h", "i", "l", "m", "r", "s", "t">>

LowerTable ==
    [c \in CharSet |->
        IF \E i \in 1..Len(UpperChars) : UpperChars[i] = c
        THEN LowerChars[CHOOSE i \in 1..Len(UpperChars) : UpperChars[i] = c]
        ELSE c]

\* str.lower(), one character
LowerChar(c) == LowerTable[c]

\* str.lower()
Lower(text) == [i \in 1..Len(text) |-> LowerChar(text[i])]

UpperTable ==
    [c \in CharSet |->
        IF \E i \in 1..Len(LowerChars) : LowerChars[i] = c
        THEN UpperChars[CHOOSE i \in 1..Len(LowerChars) : LowerChars[i] = c]
        ELSE c]

\* str.upper()
Upper(text) == [i \in 1..Len(text) |-> UpperTable[text[i]]]

NotHyphen(c) == c # "-"

NotSpace(c) == c # " "

\* The text without its white space.
RemoveSpaces(text) == SelectSeq(text, NotSpace)

\* str.replace('-', '')
RemoveHyphens(text) == SelectSeq(text, NotHyphen)

\* Python's str < str: lexicographic on code points, a proper prefix first.
RECURSIVE TextLess(_, _)
TextLess(a, b) ==
    IF b = <<>> THEN FALSE
    ELSE IF a = <<>> THEN TRUE
    ELSE IF Ord(Head(a)) # Ord(Head(b)) THEN Ord(Head(a)) < Ord(Head(b))
    ELSE TextLess(Tail(a), Tail(b))

\* Insert x into a list sorted by TextLess, after its equals (a stable sort).
RECURSIVE InsertAsc(_, _)
InsertAsc(x, sorted) ==
    IF sorted = <<>> THEN <<x>>
    ELSE IF TextLess(x, Head(sorted)) THEN <<x>> \o sorted
    ELSE <<Head(sorted)>> \o InsertAsc(x, Tail(sorted))

\* list.sort()
RECURSIVE SortAsc(_)
SortAsc(list) ==
    IF list = <<>> THEN <<>>
    ELSE InsertAsc(list[Len(list)], SortAsc(SubSeq(list, 1, Len(list) - 1)))

RECURSIVE InsertDesc(_, _)
InsertDesc(x, sorted) ==
    IF sorted = <<>> THEN <<x>>
    ELSE IF TextLess(Head(sorted), x) THEN <<x>> \o sorted
    ELSE <<Head(sorted)>> \o InsertDesc(x, Tail(sorted))

\* list.sort(reverse=True)
RECURSIVE SortDesc(_)
SortDesc(list) ==
    IF list = <<>> THEN <<>>
    ELSE InsertDesc(list[Len(list)], SortDesc(SubSeq(list, 1, Len(list) - 1)))

-----------------------------------------------------------------------------
(* Hexadecimal text and bytes *)

HexDigits == <<"0", "1", "2", "3", "4", "5", "6", "7", "8", "9",
               "a", "b", "c", "d", "e", "f">>

HexChars == {c \in CharSet : \E i \in 1..16 : HexDigits[i] = LowerChar(c)}

HexValTable ==
    [c \in HexChars |-> (CHOOSE i \in 1..16 : HexDigits[i] = LowerChar(c)) - 1]

IsHexChar(c) == c \in HexChars

HexVal(c) == HexValTable[c]

\* bytes.fromhex accepts the text: pairs of hex digits (either case), with
\* white space allowed between the pairs only.
RECURSIVE ValidHex(_)
ValidHex(text) ==
    IF text = <<>> THEN TRUE
    ELSE IF Head(text) = " " THEN ValidHex(Tail(text))
    ELSE /\ Len(text) >= 2
         /\ IsHexChar(text[1])
         /\ IsHexChar(text[2])
         /\ ValidHex(SubSeq(text, 3, Len(text)))

\* bytes.fromhex(text), for a text it accepts
RECURSIVE FromHex(_)
FromHex(text) ==
    IF text = <<>> THEN <<>>
    ELSE IF Head(text) = " " THEN FromHex(Tail(text))
    ELSE <<16 * HexVal(text[1]) + HexVal(text[2])>>
             \o FromHex(SubSeq(text, 3, Len(text)))

\* bytes.hex() / hexdigest(): two lowercase digits per byte
RECURSIVE ToHex(_)
ToHex(bytes) ==
    IF bytes = <<>> THEN <<>>
    ELSE <<HexDigits[(Head(bytes) \div 16) + 1], HexDigits[(Head(bytes) % 16) + 1]>>
             \o ToHex(Tail(bytes))

-----------------------------------------------------------------------------
(* hashlib *)

\* The attributes of hashlib that are hash constructors (the ones the
\* specification requires to be selectable).
HashlibNames ==
    { <<"m", "d", "5">>,
      <<"s", "h", "a", "1">>,
      <<"s", "h", "a", "2", "5", "6">>,
      <<"s", "h", "a", "5", "1", "2">> }

\* getattr(hashlib, name, None): the name itself when hashlib has it,
\* <<>> for None.
GetHashFunc_DefaultSha256(name) ==
    IF name \in HashlibNames THEN name ELSE <<"s", "h", "a", "2", "5", "6">>

GetHashFunc(name) == IF name \in HashlibNames THEN name ELSE <<>>

\* Digests are two bytes wide in the model.
HashModulus == 256 * 256

\* a * b modulo HashModulus, without leaving 32 bits.
MulMod(a, b) ==
    (((a * (b \div 256)) % HashModulus) * 256 + a * (b % 256)) % HashModulus

RECURSIVE PowMod(_)
PowMod(k) ==
    IF k = 0 THEN 1
    ELSE IF k % 2 = 0
    THEN LET half == PowMod(k \div 2) IN MulMod(half, half)
    ELSE MulMod(33, PowMod(k - 1))

\* The bytes lo..hi folded by h -> 33 * h + byte + 1 from h = 0, computed
\* by halves.
RECURSIVE Fold(_, _, _)
Fold(bytes, lo, hi) ==
    IF lo > hi THEN 0
    ELSE IF lo = hi THEN bytes[lo] + 1
    ELSE LET mid == (lo + hi) \div 2
         IN  (MulMod(Fold(bytes, lo, mid), PowMod(hi - mid))
                 + Fold(bytes, mid + 1, hi)) % HashModulus

\* Every byte in turn: h -> (33 * h + byte + 1) mod HashModulus.
Mix(h, bytes) ==
    (MulMod(h, PowMod(Len(bytes))) + Fold(bytes, 1, Len(bytes))) % HashModulus

RECURSIVE NameSeed(_, _)
NameSeed(h, name) ==
    IF name = <<>> THEN h
    ELSE NameSeed((h * 31 + Ord(Head(name))) % HashModulus, Tail(name))

\* hash_func(data).digest(): a deterministic function of the function's
\* name and of every byte of the data, in order.
HashBytes(hash_func, data) ==
    LET h == Mix(NameSeed(7, hash_func), data)
    IN  <<h \div 256, h % 256>>

\* hash_func(data).hexdigest()
HexDigest(hash_func, data) == ToHex(HashBytes(hash_func, data))

-----------------------------------------------------------------------------
(* Outcomes of a call: a returned value or a raised exception *)

Ok(v) == [ok |-> TRUE, value |-> v, error |-> "none"]
Raise(e) == [ok |-> FALSE, value |-> <<>>, error |-> e]
NotCalled == [ok |-> FALSE, value |-> <<>>, error |-> "not called"]

\* dict.get(key, default)
Get(dict, key, default) == IF key \in DOMAIN dict THEN dict[key] ELSE default

Sha256Name == <<"s", "h", "a", "2", "5", "6">>

-----------------------------------------------------------------------------
(* JSON documents *)

\* A JSON value is a string [s |-> "..."], a hex text [h |-> <<chars>>], a
\* hash method [hm |-> record], a list [l |-> <<values>>] or an object
\* [m |-> [key |-> value]].
Str(v) == [s |-> v]
Hex(v) == [h |-> v]
Method(v) == [hm |-> v]
List(v) == [l |-> v]
Map(v) == [m |-> v]

IsStr(v) == DOMAIN v = {"s"}
IsHex(v) == DOMAIN v = {"h"}
IsMethod(v) == DOMAIN v = {"hm"}
IsList(v) == DOMAIN v = {"l"}
IsMap(v) == DOMAIN v = {"m"}

EmptyDict == [k \in {} |-> 0]

\* The function f restricted to the keys in K.
Restrict(f, K) == [k \in K |-> f[k]]

\* dict[key] = value
SetKey(dict, key, value) ==
    [k \in DOMAIN dict \cup {key} |-> IF k = key THEN value ELSE dict[k]]

\* del dict[key]
DelKey(dict, key) == Restrict(dict, DOMAIN dict \ {key})

extension_url == "https://stacchain.github.io/merkle-tree/v1.0.0/schema.json"

\* The strings of the model, in code point order.
Strings ==
    <<"*", "Catalog", "Collection", "Feature", "Other", "a", "all", "assets", "b", "c",
      "c1", "c2", "c3", "cat", "catalog", "collection", "collections",
      "d", "datetime", "geometry", "href", "https://stac-extensions.github.io/eo",
      "https://stacchain.github.io/merkle-tree/v1.0.0/schema.json",
      "https://stacspec.org/view", "i1", "i2", "i3", "i4", "id", "merkle:hash_method",
      "merkle:object_hash", "merkle:root", "missing", "properties",
      "stac_extensions", "title", "type", "v1", "v2", "x">>

StringSet == {Strings[i] : i \in 1..Len(Strings)}

StrRankTable == [x \in StringSet |-> CHOOSE i \in 1..Len(Strings) : Strings[i] = x]

\* The rank of a string among the model's strings: x < y in Python iff
\* StrRank(x) < StrRank(y).
StrRank(x) == StrRankTable[x]

\* The UTF-8 bytes of a string, abstracted to one byte per string.
StrBytes(x) == <<128 + StrRank(x)>>

\* The smallest key of a non-empty key set.
MinKey(K) == CHOOSE k \in K : \A o \in K : StrRank(k) <= StrRank(o)

\* json.dumps(value, sort_keys=True, separators=(',', ':')).encode('utf-8')
RECURSIVE JsonDumps(_)
RECURSIVE DumpItems(_)
RECURSIVE DumpMembers(_, _)
JsonDumps(v) ==
    IF IsStr(v) THEN <<34>> \o StrBytes(v.s) \o <<34>>
    ELSE IF IsHex(v) THEN <<34>> \o [i \in 1..Len(v.h) |-> Ord(v.h[i])] \o <<34>>
    ELSE IF IsList(v) THEN <<91>> \o DumpItems(v.l) \o <<93>>
    ELSE IF IsMap(v) THEN <<123>> \o DumpMembers(v.m, DOMAIN v.m) \o <<125>>
    ELSE <<123, 125>>

DumpItems(list) ==
    IF list = <<>> THEN <<>>
    ELSE JsonDumps(Head(list))
             \o (IF Len(list) > 1 THEN <<44>> ELSE <<>>)
             \o DumpItems(Tail(list))

DumpMembers(dict, K) ==
    IF K = {} THEN <<>>
    ELSE LET k == MinKey(K)
         IN  <<34>> \o StrBytes(k) \o <<34, 58>> \o JsonDumps(dict[k])
                 \o (IF K # {k} THEN <<44>> ELSE <<>>)
                 \o DumpMembers(dict, K \ {k})

-----------------------------------------------------------------------------
(* MerkleTreeProcessor.remove_merkle_fields, compute_merkle_object_hash *)

MerkleFields == {"merkle:object_hash", "merkle:hash_method", "merkle:root"}

RECURSIVE remove_merkle_fields(_)
\* Mutant: the lists are not entered.
remove_merkle_fields_SkipLists(data) ==
    IF IsMap(data)
    THEN Map([k \in DOMAIN data.m \ MerkleFields |-> remove_merkle_fields(data.m[k])])
    ELSE data

remove_merkle_fields(data) ==
    IF IsMap(data)
    THEN Map([k \in DOMAIN data.m \ MerkleFields |-> remove_merkle_fields(data.m[k])])
    ELSE IF IsList(data)
    THEN List([i \in 1..Len(data.l) |-> remove_merkle_fields(data.l[i])])
    ELSE data

DataToHash_WholeDocument(object, method) == remove_merkle_fields(object)

\* The document the hash is taken of: all of it, or the named top-level
\* fields that are present; the reserved fields removed in both cases.
DataToHash(object, method) ==
    LET fields == Get(method, "fields", <<"*">>)
    IN  IF fields = <<"*">> \/ fields = <<"all">>
        THEN remove_merkle_fields(object)
        ELSE LET named == {fields[i] : i \in 1..Len(fields)}
                 selected_data == Map(Restrict(object.m, named \cap DOMAIN object.m))
             IN  remove_merkle_fields(selected_data)

compute_merkle_object_hash(object, method) ==
    LET json_str == JsonDumps(DataToHash(object, method))
        hash_function_name ==
            Lower(RemoveHyphens(Get(method, "function", Sha256Name)))
        hash_func == GetHashFunc(hash_function_name)
    IN  IF hash_func = <<>> THEN Raise("Unsupported hash function")
        ELSE Ok(HexDigest(hash_func, json_str))

-----------------------------------------------------------------------------
(* MerkleTreeProcessor.compute_merkle_root *)

\* Mutant: ascending leaves the list as the caller ordered it.
EnforceOrdering_AscendingUnsorted(list, ordering) ==
    IF ordering = "ascending" THEN Ok(list)
    ELSE IF ordering = "descending" THEN Ok(SortDesc(list))
    ELSE IF ordering = "unsorted" THEN Ok(list)
    ELSE Raise("Unsupported ordering")

\* The ordering step: the list after hashes.sort(), hashes.sort(reverse=True)
\* or no sort; a ValueError for any other ordering.
EnforceOrdering(list, ordering) ==
    IF ordering = "ascending" THEN Ok(SortAsc(list))
    ELSE IF ordering = "descending" THEN Ok(SortDesc(list))
    ELSE IF ordering = "unsorted" THEN Ok(list)
    ELSE Raise("Unsupported ordering")

\* hash_method.get('function', 'sha256').replace('-', '').lower()
HashFunctionName(method) ==
    Lower(RemoveHyphens(Get(method, "function", Sha256Name)))

\* Mutant: an unpaired last digest is promoted unchanged.
CombinePair_PromoteLast(current_level, i, hash_func) ==
    LET left == current_level[i]
    IN  IF i + 1 > Len(current_level) THEN Ok(left)
        ELSE LET right == current_level[i + 1]
             IN  IF ValidHex(left) /\ ValidHex(right)
                 THEN Ok(HexDigest(hash_func, FromHex(left) \o FromHex(right)))
                 ELSE Raise("Error converting hashes to bytes")

\* One iteration of the for loop body: the parent of the pair that starts
\* at index i (1-based), the last digest being paired with itself when it
\* has no right neighbour.
CombinePair(current_level, i, hash_func) ==
    LET left == current_level[i]
        right == IF i + 1 <= Len(current_level) THEN current_level[i + 1] ELSE left
    IN  IF ValidHex(left) /\ ValidHex(right)
        THEN Ok(HexDigest(hash_func, FromHex(left) \o FromHex(right)))
        ELSE Raise("Error converting hashes to bytes")

\* for i in range(0, len(current_level), 2): next_level.append(new_hash)
RECURSIVE NextLevel(_, _, _)
NextLevel(current_level, i, hash_func) ==
    IF i > Len(current_level) THEN Ok(<<>>)
    ELSE LET new_hash == CombinePair(current_level, i, hash_func)
         IN  IF ~new_hash.ok THEN new_hash
             ELSE LET rest == NextLevel(current_level, i + 2, hash_func)
                  IN  IF ~rest.ok THEN rest
                      ELSE Ok(<<new_hash.value>> \o rest.value)

\* while len(current_level) > 1: the successive values of current_level,
\* the first being the ordered input.
RECURSIVE ReduceLevels(_, _)
\* Mutant: the loop body runs once before the length is tested, so that a
\* lone digest is paired with itself.
ReduceLevels_TestAfterBody(current_level, hash_func) ==
    LET next_level == NextLevel(current_level, 1, hash_func)
    IN  IF ~next_level.ok THEN next_level
        ELSE IF Len(next_level.value) <= 1
        THEN Ok(<<current_level, next_level.value>>)
        ELSE LET rest == ReduceLevels(next_level.value, hash_func)
             IN  IF ~rest.ok THEN rest
                 ELSE Ok(<<current_level>> \o rest.value)

ReduceLevels(current_level, hash_func) ==
    IF Len(current_level) <= 1 THEN Ok(<<current_level>>)
    ELSE LET next_level == NextLevel(current_level, 1, hash_func)
         IN  IF ~next_level.ok THEN next_level
             ELSE LET rest == ReduceLevels(next_level.value, hash_func)
                  IN  IF ~rest.ok THEN rest
                      ELSE Ok(<<current_level>> \o rest.value)

\* The whole call, returning the trace of current_level.
merkle_levels(list, method) ==
    IF list = <<>> THEN Ok(<<>>)
    ELSE LET ordered == EnforceOrdering(list, Get(method, "ordering", "ascending"))
             hash_func == GetHashFunc(HashFunctionName(method))
         IN  IF ~ordered.ok THEN ordered
             ELSE IF hash_func = <<>> THEN Raise("Unsupported hash function")
             ELSE ReduceLevels(ordered.value, hash_func)

\* compute_merkle_root(hashes, hash_method): '' for the empty list, else
\* current_level[0] once the loop has ended.
compute_merkle_root(list, method) ==
    LET trace == merkle_levels(list, method)
    IN  IF ~trace.ok THEN trace
        ELSE IF trace.value = <<>> THEN Ok(<<>>)
        ELSE Ok(trace.value[Len(trace.value)][1])

-----------------------------------------------------------------------------
(* MerkleTreeVerifier.compute_merkle_root: the verifier's own copy *)

verifier_merkle_levels(list, method) ==
    IF list = <<>> THEN Ok(<<>>)
    ELSE LET ordering == Get(method, "ordering", "ascending")
             ordered == IF ordering = "ascending" THEN Ok(SortAsc(list))
                        ELSE IF ordering = "descending" THEN Ok(SortDesc(list))
                        ELSE IF ordering = "unsorted" THEN Ok(list)
                        ELSE Raise("Unsupported ordering method")
             hash_function_name ==
                 Lower(RemoveHyphens(Get(method, "function", Sha256Name)))
             hash_func == GetHashFunc(hash_function_name)
         IN  IF ~ordered.ok THEN ordered
             ELSE IF hash_func = <<>> THEN Raise("Unsupported hash function")
             ELSE ReduceLevels(ordered.value, hash_func)

verifier_compute_merkle_root(list, method) ==
    LET trace == verifier_merkle_levels(list, method)
    IN  IF ~trace.ok THEN trace
        ELSE IF trace.value = <<>> THEN Ok(<<>>)
        ELSE Ok(trace.value[Len(trace.value)][1])

\* The caller's list after the call: hashes.sort() sorts it in place, before
\* the hash function is looked up.
ListAfterCall(list, method) ==
    LET ordered == EnforceOrdering(list, Get(method, "ordering", "ascending"))
    IN  IF list # <<>> /\ ordered.ok THEN ordered.value ELSE list

-----------------------------------------------------------------------------
(* The parts of the state a specification does not use stay as they are *)

IdleHash ==
    /\ stac_object = Map(EmptyDict)
    /\ object_hash = NotCalled
    /\ base_hash = NotCalled
    /\ edits = <<>>

ProofNotCalled == [ok |-> FALSE, value |-> FALSE, error |-> "not called"]

\* The command has not run.
MainNotRun == [reported |-> "nothing", merkle_root |-> <<>>]

IdleProof ==
    /\ merkle_root_option = <<>>
    /\ main_outcome = MainNotRun
    /\ collection_hash = <<>>
    /\ proof_hashes = <<>>
    /\ proof_positions = <<>>
    /\ proof_merkle_root = <<>>
    /\ hash_function = <<>>
    /\ is_valid = ProofNotCalled
    /\ current_hash = <<>>
    /\ tampers = <<>>

VerifyNotCalled == [ok |-> FALSE, value |-> FALSE, error |-> "not called"]

\* No build has run yet.
NotBuilt == [pending |-> TRUE]

IdleTree ==
    /\ catalog_dir = <<>>
    /\ root_hash_method = EmptyDict
    /\ merkle_tree = NotBuilt
    /\ verification_result = VerifyNotCalled
    /\ discrepancies = <<>>
    /\ calculated_root = <<>>
    /\ tree_edits = <<>>
    /\ relisted_dir = <<>>
    /\ relisted_tree = NotBuilt
    /\ relists = 0
    /\ build_log = <<>>
    /\ rebuilt_dir = <<>>
    /\ rebuilt_tree = NotBuilt

IdleRoot ==
    /\ hashes = <<>>
    /\ merkle_root = NotCalled
    /\ levels = <<>>
    /\ call_hashes = <<>>
    /\ prev_hashes = <<>>
    /\ prev_root = NotCalled

-----------------------------------------------------------------------------
(* The reducer called on bounded inputs *)

D1 == <<"0", "a", "1", "f">>
D2 == <<"b", "2", "0", "0">>
D3 == <<"0", "a", "2", "0">>
BadDigest == <<"g", "g">>

RootDigests == {D1, D2, D3}

RECURSIVE ListsUpTo(_, _)
ListsUpTo(pool, n) ==
    IF n = 0 THEN {<<>>}
    ELSE LET shorter == ListsUpTo(pool, n - 1)
         IN  shorter \cup {<<d>> \o l : d \in pool, l \in {s \in shorter : Len(s) = n - 1}}

\* Longer lists are the windows of one fixed sequence.
LongSeq == <<D1, D2, D3, D2, D1, D3, D3, D1>>

RootLists ==
    ListsUpTo(RootDigests, MaxPermLen)
        \cup {SubSeq(LongSeq, w[1], w[1] + w[2] - 1) :
                 w \in {v \in (1..Len(LongSeq)) \X (1..MaxHashes) :
                           v[1] + v[2] - 1 <= Len(LongSeq)}}
        \cup {<<BadDigest>>, <<D1, BadDigest>>, <<BadDigest, D2, D1>>}

RootMethods ==
    { [function |-> Sha256Name, ordering |-> "ascending"],
      [function |-> <<"S", "H", "A", "-", "2", "5", "6">>, ordering |-> "descending"],
      [function |-> <<"m", "d", "5">>, ordering |-> "unsorted"],
      [function |-> Sha256Name, ordering |-> "unsorted"],
      [fields |-> <<"*">>],
      [function |-> <<"b", "a", "d">>, ordering |-> "ascending"],
      [function |-> Sha256Name, ordering |-> "random"] }

InitRoot ==
    /\ hashes \in RootLists
    /\ hash_method \in RootMethods
    /\ merkle_root = NotCalled
    /\ levels = <<>>
    /\ call_hashes = <<>>
    /\ prev_hashes = <<>>
    /\ prev_root = NotCalled
    /\ IdleHash
    /\ IdleProof
    /\ IdleTree

\* processor.compute_merkle_root(hashes, hash_method)
ComputeRoot ==
    /\ merkle_root = NotCalled
    /\ LET outcome == compute_merkle_root(hashes, hash_method)
           trace == merkle_levels(hashes, hash_method)
       IN  /\ merkle_root' = outcome
           /\ levels' = IF trace.ok THEN trace.value ELSE <<>>
           /\ call_hashes' = hashes
           /\ hashes' = ListAfterCall(hashes, hash_method)
           /\ IF prev_root = NotCalled
              THEN prev_hashes' = hashes /\ prev_root' = outcome
              ELSE UNCHANGED <<prev_hashes, prev_root>>
    /\ UNCHANGED <<hash_method, hashVars, proofVars, treeVars>>

\* verifier.compute_merkle_root(hashes, hash_method)
VerifierComputeRoot ==
    /\ merkle_root = NotCalled
    /\ LET outcome == verifier_compute_merkle_root(hashes, hash_method)
           trace == verifier_merkle_levels(hashes, hash_method)
       IN  /\ merkle_root' = outcome
           /\ levels' = IF trace.ok THEN trace.value ELSE <<>>
           /\ call_hashes' = hashes
           /\ hashes' = ListAfterCall(hashes, hash_method)
           /\ IF prev_root = NotCalled
              THEN prev_hashes' = hashes /\ prev_root' = outcome
              ELSE UNCHANGED <<prev_hashes, prev_root>>
    /\ UNCHANGED <<hash_method, hashVars, proofVars, treeVars>>

\* The caller reorders its list (one transposition) before calling again.
PermuteHashes ==
    /\ prev_root # NotCalled
    /\ Len(hashes) <= MaxPermLen
    /\ \E i \in 1..Len(hashes), j \in 1..Len(hashes) :
           /\ i < j
           /\ hashes[i] # hashes[j]
           /\ hashes' = [hashes EXCEPT ![i] = hashes[j], ![j] = hashes[i]]
    /\ merkle_root' = NotCalled
    /\ levels' = <<>>
    /\ UNCHANGED <<hash_method, call_hashes, prev_hashes, prev_root, hashVars, proofVars, treeVars>>

NextRoot == ComputeRoot \/ VerifierComputeRoot \/ PermuteHashes

SpecRoot == InitRoot /\ [][NextRoot]_vars

-----------------------------------------------------------------------------
(* Claims about the reducer, under SpecRoot *)

\* The hash function the last call resolved (<<>> when hashlib has none).
CallHashFunc == GetHashFunc(HashFunctionName(hash_method))

CallOrdering == Get(hash_method, "ordering", "ascending")

\* Number of occurrences of x in list.
Count(x, list) == Cardinality({i \in 1..Len(list) : list[i] = x})

IsPermutation(p, l) ==
    /\ Len(p) = Len(l)
    /\ \A i \in 1..Len(l) : Count(l[i], p) = Count(l[i], l)

\* The last call was handed a permutation of the list of the first call.
SecondCallOnPermutation ==
    /\ merkle_root # NotCalled
    /\ prev_root # NotCalled
    /\ call_hashes # <<>>
    /\ IsPermutation(call_hashes, prev_hashes)

\* C5: with ordering ascending, the root of every permutation of a non-empty
\* digest list equals the root of the list; with ordering unsorted the
\* reduction starts from the list in the order the caller supplied.
C5_AscendingIgnoresOrder_UnsortedKeepsIt ==
    /\ (SecondCallOnPermutation /\ CallOrdering = "ascending")
           => merkle_root = prev_root
    /\ (merkle_root.ok /\ call_hashes # <<>> /\ CallOrdering = "unsorted")
           => levels[1] = call_hashes

\* C5 witness: two calls on different orders of one list; under ascending
\* both returned a root, and under unsorted the two roots differ.
C5_Witness ==
    /\ SecondCallOnPermutation
    /\ call_hashes # prev_hashes
    /\ merkle_root.ok /\ prev_root.ok
    /\ CallOrdering = "unsorted"
    /\ merkle_root.value # prev_root.value

\* C6 (as amended): a list holding one digest a reduces to a itself, no hash
\* being applied; the last digest is paired with itself only on a level
\* that holds an odd number of digests greater than one.
C6_SingleDigestReturnedAsIs ==
    (merkle_root.ok /\ call_hashes # <<>>) =>
        /\ Len(call_hashes) = 1 =>
              (merkle_root.value = call_hashes[1] /\ levels = <<call_hashes>>)
        /\ \A k \in 1..(Len(levels) - 1) :
              LET n == Len(levels[k])
                  a == levels[k][n]
              IN  n % 2 = 1 =>
                     /\ n > 1
                     /\ levels[k + 1][(n + 1) \div 2]
                            = HexDigest(CallHashFunc, FromHex(a) \o FromHex(a))

\* C6 witness: a call on a single digest that returned that digest.
C6_Witness ==
    /\ merkle_root.ok
    /\ Len(call_hashes) = 1
    /\ merkle_root.value = D2

\* C6 as stated: reducing a single (hexadecimal) digest a returns
\* hash(decode(a) ++ decode(a)).
C6_Original_SingleDigestHashedWithItself ==
    (merkle_root.ok /\ Len(call_hashes) = 1 /\ ValidHex(call_hashes[1])) =>
        merkle_root.value
            = HexDigest(CallHashFunc,
                        FromHex(call_hashes[1]) \o FromHex(call_hashes[1]))

\* C7: every level with more than one digest is cut left to right into
\* non-overlapping pairs, each parent being hash(decode(left) ++
\* decode(right)); the last digest of an odd level is combined with itself;
\* the next level holds ceil(n/2) digests and the reduction stops at the
\* first level that holds exactly one digest, which is the root.
C7_PairwiseLevels ==
    (merkle_root.ok /\ call_hashes # <<>>) =>
        /\ Len(levels) >= 1
        /\ IsPermutation(levels[1], call_hashes)
        /\ \A k \in 1..(Len(levels) - 1) :
              LET cur == levels[k]
                  n == Len(cur)
                  nxt == levels[k + 1]
              IN  /\ n > 1
                  /\ Len(nxt) = (n + 1) \div 2
                  /\ \A j \in 1..Len(nxt) :
                        LET left == cur[2 * j - 1]
                            right == IF 2 * j <= n THEN cur[2 * j] ELSE left
                        IN  nxt[j] = HexDigest(CallHashFunc,
                                               FromHex(left) \o FromHex(right))
        /\ Len(levels[Len(levels)]) = 1
        /\ merkle_root.value = levels[Len(levels)][1]

\* C7 witness: a reduction over three levels whose first two are odd and
\* whose unpaired last digest differs from its neighbour.
C7_Witness ==
    /\ merkle_root.ok
    /\ Len(levels) = 4
    /\ Len(levels[1]) = 5
    /\ Len(levels[2]) = 3
    /\ levels[2][3] # levels[1][5]

-----------------------------------------------------------------------------
(* The object hasher called on bounded inputs *)

Absent == [absent |-> TRUE]

Key(k) == [k |-> k]
Index(i) == [i |-> i]

\* The value at a path of keys and list indexes.
RECURSIVE ValueAt(_, _)
ValueAt(v, path) ==
    IF path = <<>> THEN v
    ELSE IF "k" \in DOMAIN Head(path)
    THEN ValueAt(v.m[Head(path).k], Tail(path))
    ELSE ValueAt(v.l[Head(path).i], Tail(path))

\* Whether the path leads to an object of the document.
RECURSIVE IsObjectAt(_, _)
IsObjectAt(v, path) ==
    IF path = <<>> THEN IsMap(v)
    ELSE IF "k" \in DOMAIN Head(path)
    THEN /\ IsMap(v)
         /\ Head(path).k \in DOMAIN v.m
         /\ IsObjectAt(v.m[Head(path).k], Tail(path))
    ELSE /\ IsList(v)
         /\ Head(path).i \in 1..Len(v.l)
         /\ IsObjectAt(v.l[Head(path).i], Tail(path))

\* The document with the object at path given (or, for Absent, losing) a key.
RECURSIVE SetKeyAt(_, _, _, _)
SetKeyAt(v, path, key, value) ==
    IF path = <<>>
    THEN Map(IF value = Absent THEN DelKey(v.m, key) ELSE SetKey(v.m, key, value))
    ELSE IF "k" \in DOMAIN Head(path)
    THEN Map([v.m EXCEPT ![Head(path).k] = SetKeyAt(@, Tail(path), key, value)])
    ELSE List([v.l EXCEPT ![Head(path).i] = SetKeyAt(@, Tail(path), key, value)])

EoExtension == "https://stac-extensions.github.io/eo"
ViewExtension == "https://stacspec.org/view"

ItemDoc ==
    Map([type |-> Str("Feature"),
         id |-> Str("a"),
         properties |-> Map([datetime |-> Str("v1")]),
         assets |-> List(<<Map([href |-> Str("v1")])>>),
         stac_extensions |-> List(<<Str(ViewExtension), Str(EoExtension)>>)])

CollectionDoc ==
    Map(("type" :> Str("Collection")) @@ ("id" :> Str("c"))
        @@ ("title" :> Str("v1"))
        @@ ("merkle:root" :> Hex(D2))
        @@ ("properties" :> Map(("merkle:object_hash" :> Hex(D1))))
        @@ ("stac_extensions" :>
               List(<<Str(ViewExtension), Str(extension_url), Str(EoExtension)>>)))

BareDoc == Map([type |-> Str("Feature"), id |-> Str("b")])

HashDocs == {ItemDoc, CollectionDoc, BareDoc}

Md5Name == <<"m", "d", "5">>
Sha256Dashed == <<"S", "H", "A", "-", "2", "5", "6">>
BadName == <<"b", "a", "d">>

HashMethods ==
    { [function |-> Sha256Name, fields |-> <<"*">>, ordering |-> "ascending"],
      [function |-> Sha256Dashed, fields |-> <<"all">>],
      [function |-> Md5Name, fields |-> <<"id", "properties">>],
      [fields |-> <<"id", "merkle:root", "assets", "stac_extensions">>],
      [function |-> BadName, fields |-> <<"*">>],
      [function |-> Sha256Name, fields |-> <<"missing">>] }

\* Where a reserved field is added, changed or removed: the top level, a
\* nested object, an object inside a list.
ReservedSlots ==
    { [path |-> <<>>, field |-> "merkle:object_hash"],
      [path |-> <<>>, field |-> "merkle:hash_method"],
      [path |-> <<>>, field |-> "merkle:root"],
      [path |-> <<Key("properties")>>, field |-> "merkle:object_hash"],
      [path |-> <<Key("properties")>>, field |-> "merkle:hash_method"],
      [path |-> <<Key("assets"), Index(1)>>, field |-> "merkle:root"],
      [path |-> <<Key("assets"), Index(1)>>, field |-> "merkle:object_hash"] }

ReservedValues == {Absent, Hex(D1), Str("v2")}

\* Edits of one family only follow one another.
MayEdit(family) ==
    /\ base_hash # NotCalled
    /\ Len(edits) < MaxEdits
    /\ \A i \in 1..Len(edits) : edits[i] \in family

InitHash ==
    /\ stac_object \in HashDocs
    /\ hash_method \in HashMethods
    /\ object_hash = NotCalled
    /\ base_hash = NotCalled
    /\ edits = <<>>
    /\ IdleRoot
    /\ IdleProof
    /\ IdleTree

\* processor.compute_merkle_object_hash(stac_object, hash_method)
ComputeObjectHash ==
    /\ object_hash = NotCalled
    /\ object_hash' = compute_merkle_object_hash(stac_object, hash_method)
    /\ base_hash' = IF base_hash = NotCalled THEN object_hash' ELSE base_hash
    /\ UNCHANGED <<stac_object, edits, hash_method, rootVars, proofVars, treeVars>>

\* A reserved field is added, changed or removed somewhere in the document.
EditReservedField ==
    /\ MayEdit({"reserved"})
    /\ \E slot \in ReservedSlots, value \in ReservedValues :
           /\ IsObjectAt(stac_object, slot.path)
           /\ stac_object' = SetKeyAt(stac_object, slot.path, slot.field, value)
           /\ stac_object' # stac_object
    /\ edits' = Append(edits, "reserved")
    /\ object_hash' = NotCalled
    /\ UNCHANGED <<base_hash, hash_method, rootVars, proofVars, treeVars>>

IsMarker(v) == v = Str(extension_url)
NotMarker(v) == v # Str(extension_url)

HasExtensions(object) ==
    /\ "stac_extensions" \in DOMAIN object.m
    /\ IsList(object.m["stac_extensions"])

\* The integrity-extension marker is added to the declared-extensions list
\* (at any place) or removed from it.
ToggleMarker ==
    /\ MayEdit({"marker", "order"})
    /\ HasExtensions(stac_object)
    /\ LET exts == stac_object.m["stac_extensions"].l
       IN  IF \E i \in 1..Len(exts) : IsMarker(exts[i])
           THEN stac_object' =
                    SetKeyAt(stac_object, <<>>, "stac_extensions",
                             List(SelectSeq(exts, NotMarker)))
           ELSE \E i \in 0..Len(exts) :
                    stac_object' =
                        SetKeyAt(stac_object, <<>>, "stac_extensions",
                                 List(SubSeq(exts, 1, i) \o <<Str(extension_url)>>
                                          \o SubSeq(exts, i + 1, Len(exts))))
    /\ edits' = Append(edits, "marker")
    /\ object_hash' = NotCalled
    /\ UNCHANGED <<base_hash, hash_method, rootVars, proofVars, treeVars>>

\* Two entries of the declared-extensions list change places.
PermuteExtensions ==
    /\ MayEdit({"marker", "order"})
    /\ HasExtensions(stac_object)
    /\ LET exts == stac_object.m["stac_extensions"].l
       IN  \E i \in 1..Len(exts), j \in 1..Len(exts) :
               /\ i < j
               /\ exts[i] # exts[j]
               /\ stac_object' =
                      SetKeyAt(stac_object, <<>>, "stac_extensions",
                               List([exts EXCEPT ![i] = exts[j], ![j] = exts[i]]))
    /\ edits' = Append(edits, "order")
    /\ object_hash' = NotCalled
    /\ UNCHANGED <<base_hash, hash_method, rootVars, proofVars, treeVars>>

\* An ordinary top-level field is set or removed.
EditField ==
    /\ MayEdit({"content"})
    /\ \E key \in {"id", "geometry", "properties"},
          value \in {Absent, Str("v1"), Str("v2")} :
           /\ stac_object' = SetKeyAt(stac_object, <<>>, key, value)
           /\ stac_object' # stac_object
           /\ edits' = Append(edits, key)
    /\ object_hash' = NotCalled
    /\ UNCHANGED <<base_hash, hash_method, rootVars, proofVars, treeVars>>

NextHash ==
    \/ ComputeObjectHash
    \/ EditReservedField
    \/ ToggleMarker
    \/ PermuteExtensions
    \/ EditField

SpecHash == InitHash /\ [][NextHash]_vars

-----------------------------------------------------------------------------
(* Claims about the object hasher, under SpecHash *)

HashedTwice == object_hash # NotCalled /\ base_hash # NotCalled

OnlyEdits(family) ==
    /\ edits # <<>>
    /\ \A i \in 1..Len(edits) : edits[i] \in family

\* C3: adding, removing or changing merkle:object_hash, merkle:hash_method
\* and merkle:root, at the top level, in a nested object or in an object
\* inside a list, does not change the object hash of the document, under a
\* wildcard or an explicit field list (one that names a reserved field
\* included).
C3_ReservedFieldsNeverHashed ==
    (HashedTwice /\ OnlyEdits({"reserved"})) => object_hash = base_hash

\* C3 witness: a document hashed, then given a reserved field inside a list
\* and one at the top level, then hashed again under a field list that
\* names a reserved field.
C3_Witness ==
    /\ HashedTwice
    /\ object_hash.ok
    /\ OnlyEdits({"reserved"})
    /\ Len(edits) = 2
    /\ "merkle:root" \in DOMAIN stac_object.m
    /\ IsObjectAt(stac_object, <<Key("assets"), Index(1)>>)
    /\ "merkle:root" \in DOMAIN ValueAt(stac_object, <<Key("assets"), Index(1)>>).m
    /\ Get(hash_method, "fields", <<"*">>)
           = <<"id", "merkle:root", "assets", "stac_extensions">>

\* C4: the object hash does not depend on whether the integrity-extension
\* marker is in the declared-extensions list, nor on the order of the other
\* entries of that list.
C4_Original_MarkerAndOrderNeverHashed ==
    (HashedTwice /\ OnlyEdits({"marker", "order"})) => object_hash = base_hash

-----------------------------------------------------------------------------
(* verify_collection_cli.verify_merkle_proof *)

Left == <<"l", "e", "f", "t">>
Right == <<"r", "i", "g", "h", "t">>

\* The call returned a boolean.
ReturnBool(b) == [ok |-> TRUE, value |-> b, error |-> "none"]

\* click.echo(message, err=True); sys.exit(1)
SysExit(message) == [ok |-> FALSE, value |-> FALSE, error |-> message]

\* Mutant: the sibling is put on the other side of current_hash.
ProofStep_SidesSwapped(current, sibling_hash_hex, position, function) ==
    IF ~ValidHex(sibling_hash_hex) THEN Raise("Invalid hex string in proof_hashes")
    ELSE LET sibling_hash == FromHex(sibling_hash_hex)
             hash_func == GetHashFunc(RemoveHyphens(function))
         IN  IF Lower(position) # Left /\ Lower(position) # Right
             THEN Raise("Invalid position value")
             ELSE IF hash_func = <<>> THEN Raise("Unsupported hash function")
             ELSE IF Lower(position) = Left
             THEN Ok(HashBytes(hash_func, current \o sibling_hash))
             ELSE Ok(HashBytes(hash_func, sibling_hash \o current))

\* One iteration of the loop over zip(proof_hashes, proof_positions): the
\* next value of current_hash, or the reason of the exit.
ProofStep_AnythingElseIsRight(current, sibling_hash_hex, position, function) ==
    IF ~ValidHex(sibling_hash_hex) THEN Raise("Invalid hex string in proof_hashes")
    ELSE LET sibling_hash == FromHex(sibling_hash_hex)
             hash_func == GetHashFunc(RemoveHyphens(function))
         IN  IF hash_func = <<>> THEN Raise("Unsupported hash function")
             ELSE IF Lower(position) = Left
             THEN Ok(HashBytes(hash_func, sibling_hash \o current))
             ELSE Ok(HashBytes(hash_func, current \o sibling_hash))

ProofStep(current, sibling_hash_hex, position, function) ==
    IF ~ValidHex(sibling_hash_hex) THEN Raise("Invalid hex string in proof_hashes")
    ELSE LET sibling_hash == FromHex(sibling_hash_hex)
             hash_func == GetHashFunc(RemoveHyphens(function))
         IN  IF Lower(position) # Left /\ Lower(position) # Right
             THEN Raise("Invalid position value")
             ELSE IF hash_func = <<>> THEN Raise("Unsupported hash function")
             ELSE IF Lower(position) = Left
             THEN Ok(HashBytes(hash_func, sibling_hash \o current))
             ELSE Ok(HashBytes(hash_func, current \o sibling_hash))

\* The loop from step idx on: the values current_hash takes, the one it
\* enters the step with first.
RECURSIVE ProofSteps(_, _, _, _, _)
ProofSteps(current, siblings, positions, idx, function) ==
    IF idx > Len(siblings) THEN Ok(<<current>>)
    ELSE LET next == ProofStep(current, siblings[idx], positions[idx], function)
         IN  IF ~next.ok THEN next
             ELSE LET rest == ProofSteps(next.value, siblings, positions,
                                         idx + 1, function)
                  IN  IF ~rest.ok THEN rest
                      ELSE Ok(<<current>> \o rest.value)

\* The whole call, returning the trace of current_hash.
proof_trace(target, siblings, positions, function) ==
    IF Len(siblings) # Len(positions)
    THEN Raise("The number of proof hashes must match the number of proof positions.")
    ELSE IF ~ValidHex(target) THEN Raise("Invalid hex string for collection_hash.")
    ELSE ProofSteps(FromHex(target), siblings, positions, 1, function)

\* verify_merkle_proof(collection_hash, proof_hashes, proof_positions,
\*                     merkle_root, hash_function)
verify_merkle_proof(target, siblings, positions, root, function) ==
    LET trace == proof_trace(target, siblings, positions, function)
    IN  IF ~trace.ok THEN SysExit(trace.error)
        ELSE LET computed_merkle_root == ToHex(trace.value[Len(trace.value)])
             IN  ReturnBool(Lower(computed_merkle_root) = Lower(root))

-----------------------------------------------------------------------------
(* The proof verifier called on the paths of the reducer's trees *)

\* The path of the node at place idx of level k: on every level that holds
\* more than one digest the other operand of the pair the node is in (the
\* node itself when it is the unpaired last one), with the side that
\* operand is on; the parent is at place ceil(idx / 2) of the next level.
RECURSIVE PathFrom(_, _, _)
PathFrom(lvls, k, idx) ==
    IF k >= Len(lvls) THEN <<>>
    ELSE LET cur == lvls[k]
             entry ==
                 IF idx % 2 = 1
                 THEN [hash |-> IF idx + 1 <= Len(cur) THEN cur[idx + 1] ELSE cur[idx],
                       position |-> Right]
                 ELSE [hash |-> cur[idx - 1], position |-> Left]
         IN  <<entry>> \o PathFrom(lvls, k + 1, (idx + 1) \div 2)

ProofLists ==
    (ListsUpTo(RootDigests, 2) \ {<<>>})
        \cup {SubSeq(LongSeq, w[1], w[1] + w[2] - 1) :
                 w \in {v \in (1..Len(LongSeq)) \X (3..MaxLeaves) :
                           v[1] + v[2] - 1 <= Len(LongSeq)}}

InitProof ==
    /\ hashes \in ProofLists
    /\ hash_method \in RootMethods
    /\ merkle_root = NotCalled
    /\ levels = <<>>
    /\ call_hashes = <<>>
    /\ prev_hashes = <<>>
    /\ prev_root = NotCalled
    /\ IdleHash
    /\ IdleProof
    /\ IdleTree

ProofDerived == collection_hash # <<>>

\* The proof document of one node of the tree a root was computed for: its
\* digest, its path, the root, and hash_method.get("function", "sha256").
DeriveProof ==
    /\ merkle_root.ok
    /\ ~ProofDerived
    /\ \E i \in 1..Len(levels[1]) :
           LET path == PathFrom(levels, 1, i)
           IN  /\ collection_hash' = levels[1][i]
               /\ proof_hashes' = [k \in 1..Len(path) |-> path[k].hash]
               /\ proof_positions' = [k \in 1..Len(path) |-> path[k].position]
    /\ proof_merkle_root' = merkle_root.value
    /\ hash_function' = Get(hash_method, "function", Sha256Name)
    /\ UNCHANGED <<is_valid, current_hash, tampers, mainVars,
                   rootVars, hashVars, treeVars>>

MayTamper ==
    /\ ProofDerived
    /\ is_valid = ProofNotCalled
    /\ Len(tampers) < MaxTampers

\* The claimed root is written in upper case, or replaced.
TamperRoot ==
    /\ MayTamper
    /\ \E root \in {Upper(proof_merkle_root), D3} :
           /\ root # proof_merkle_root
           /\ proof_merkle_root' = root
    /\ tampers' = Append(tampers, "root")
    /\ UNCHANGED <<collection_hash, proof_hashes, proof_positions, hash_function,
                   is_valid, current_hash, mainVars, rootVars, hashVars, treeVars>>

\* The target digest is written in upper case, or replaced.
TamperTarget ==
    /\ MayTamper
    /\ \E target \in {Upper(collection_hash), D3, BadDigest} :
           /\ target # collection_hash
           /\ collection_hash' = target
           /\ tampers' = Append(tampers, IF target = Upper(collection_hash)
                                         THEN "case" ELSE "target")
    /\ UNCHANGED <<proof_hashes, proof_positions, proof_merkle_root, hash_function,
                   is_valid, current_hash, mainVars, rootVars, hashVars, treeVars>>

\* One sibling digest is written in upper case, or replaced.
TamperSibling ==
    /\ MayTamper
    /\ \E k \in 1..Len(proof_hashes) :
           \E sibling \in {Upper(proof_hashes[k]), D3, BadDigest} :
               /\ sibling # proof_hashes[k]
               /\ proof_hashes' = [proof_hashes EXCEPT ![k] = sibling]
               /\ tampers' = Append(tampers, IF sibling = Upper(proof_hashes[k])
                                             THEN "case" ELSE "sibling")
    /\ UNCHANGED <<collection_hash, proof_positions, proof_merkle_root,
                   hash_function, is_valid, current_hash, mainVars,
                   rootVars, hashVars, treeVars>>

\* One position is written in upper case, or replaced.
TamperPosition ==
    /\ MayTamper
    /\ \E k \in 1..Len(proof_positions) :
           \E position \in {Upper(proof_positions[k]), Left, Right, <<"u", "p">>} :
               /\ position # proof_positions[k]
               /\ proof_positions' = [proof_positions EXCEPT ![k] = position]
               /\ tampers' = Append(tampers, IF position = Upper(proof_positions[k])
                                             THEN "case" ELSE "position")
    /\ UNCHANGED <<collection_hash, proof_hashes, proof_merkle_root, hash_function,
                   is_valid, current_hash, mainVars, rootVars, hashVars, treeVars>>

\* The last position is dropped, or a sibling is added without a position.
TamperLength ==
    /\ MayTamper
    /\ \/ /\ proof_positions # <<>>
          /\ proof_positions' = SubSeq(proof_positions, 1, Len(proof_positions) - 1)
          /\ UNCHANGED proof_hashes
       \/ /\ proof_hashes' = Append(proof_hashes, D1)
          /\ UNCHANGED proof_positions
    /\ tampers' = Append(tampers, "length")
    /\ UNCHANGED <<collection_hash, proof_merkle_root, hash_function,
                   is_valid, current_hash, mainVars, rootVars, hashVars, treeVars>>

\* verify_merkle_proof(collection_hash, proof_hashes, proof_positions,
\*                     merkle_root, hash_function)
VerifyProof ==
    /\ ProofDerived
    /\ is_valid = ProofNotCalled
    /\ main_outcome = MainNotRun
    /\ LET trace == proof_trace(collection_hash, proof_hashes, proof_positions,
                                hash_function)
       IN  /\ is_valid' = verify_merkle_proof(collection_hash, proof_hashes,
                                              proof_positions, proof_merkle_root,
                                              hash_function)
           /\ current_hash' = IF trace.ok THEN trace.value ELSE <<>>
    /\ UNCHANGED <<collection_hash, proof_hashes, proof_positions,
                   proof_merkle_root, hash_function, tampers, mainVars,
                   rootVars, hashVars, treeVars>>

\* The document carries no proof.catalog_root.
DropCatalogRoot ==
    /\ MayTamper
    /\ main_outcome = MainNotRun
    /\ proof_merkle_root # <<>>
    /\ proof_merkle_root' = <<>>
    /\ tampers' = Append(tampers, "no root")
    /\ UNCHANGED <<collection_hash, proof_hashes, proof_positions, hash_function,
                   is_valid, current_hash, mainVars, rootVars, hashVars, treeVars>>

\* What the command reports for the outcome of verify_merkle_proof.
Reported(outcome) ==
    IF ~outcome.ok THEN "exit 1"
    ELSE IF outcome.value THEN "Verification successful"
    ELSE "Verification failed"

\* The root main compares against: proof.get("catalog_root") or merkle_root
MainMerkleRoot(catalog_root, option) ==
    IF catalog_root # <<>> THEN catalog_root ELSE option

\* The roots a caller may hand over as --merkle-root: none, the root of the
\* catalog the proof was derived from, or the root of another catalog.
MerkleRootOptions == {<<>>, merkle_root.value, D3}

\* main(collection_file, merkle_root), on the document that holds the
\* object hash, the proof and the hash method.
Main ==
    /\ ProofDerived
    /\ is_valid = ProofNotCalled
    /\ main_outcome = MainNotRun
    /\ \E option \in MerkleRootOptions :
           LET root == MainMerkleRoot(proof_merkle_root, option)
           IN  /\ merkle_root_option' = option
               /\ main_outcome' =
                      IF root = <<>>
                      THEN [reported |-> "exit 1", merkle_root |-> root]
                      ELSE [reported |->
                                Reported(verify_merkle_proof(
                                             collection_hash, proof_hashes,
                                             proof_positions, root, hash_function)),
                            merkle_root |-> root]
    /\ UNCHANGED <<collection_hash, proof_hashes, proof_positions,
                   proof_merkle_root, hash_function, is_valid, current_hash,
                   tampers, rootVars, hashVars, treeVars>>

NextProof ==
    \/ ComputeRoot
    \/ DeriveProof
    \/ TamperRoot
    \/ TamperTarget
    \/ TamperSibling
    \/ TamperPosition
    \/ TamperLength
    \/ DropCatalogRoot
    \/ Main
    \/ VerifyProof

SpecProof == InitProof /\ [][NextProof]_vars

-----------------------------------------------------------------------------
(* Claims about the proof verifier, under SpecProof *)

\* The hash function the proof verifier resolves (<<>> when hashlib has none).
ProofHashFunc == GetHashFunc(RemoveHyphens(hash_function))

\* C8: a call that returns started from current = decode(target digest),
\* set current = hash(sibling ++ current) for every left sibling and
\* current = hash(current ++ sibling) for every right one, in path order,
\* and returned true iff the hex encoding of the final current equals the
\* claimed root, letter case ignored; with an empty path, iff the decoded
\* target digest, encoded again, equals the claimed root.
C8_ProofFoldsPathInOrder ==
    is_valid.ok =>
        /\ Len(current_hash) = Len(proof_hashes) + 1
        /\ current_hash[1] = FromHex(collection_hash)
        /\ \A k \in 1..Len(proof_hashes) :
              current_hash[k + 1] =
                  IF Lower(proof_positions[k]) = Left
                  THEN HashBytes(ProofHashFunc,
                                 FromHex(proof_hashes[k]) \o current_hash[k])
                  ELSE HashBytes(ProofHashFunc,
                                 current_hash[k] \o FromHex(proof_hashes[k]))
        /\ is_valid.value =
               (ToHex(current_hash[Len(current_hash)]) = Lower(proof_merkle_root))
        /\ proof_hashes = <<>> =>
               (is_valid.value =
                    (Lower(RemoveSpaces(collection_hash)) = Lower(proof_merkle_root)))

\* C8 witness: a path of a left sibling then a right one was folded, and
\* the call returned true against a root written in upper case.
C8_Witness ==
    /\ is_valid.ok
    /\ is_valid.value
    /\ Len(proof_hashes) = 2
    /\ proof_positions = <<Left, Right>>
    /\ proof_hashes[1] # proof_hashes[2]
    /\ proof_merkle_root # Lower(proof_merkle_root)

\* C9: the path read off the reducer's levels for any place of the ordered
\* list, handed unchanged to the proof verifier with the root the reducer
\* returned and the function name of the hash method, verifies.
C9_Original_ReducerPathsVerify ==
    (ProofDerived /\ tampers = <<>> /\ is_valid # ProofNotCalled) =>
        is_valid = ReturnBool(TRUE)

-----------------------------------------------------------------------------
(* The document tree: directories of JSON documents *)

\* A directory lists its JSON files and its subdirectories in the order
\* glob('*.json') and iterdir() enumerate them. A file is named by its stem.
File(name, doc) == [name |-> name, doc |-> doc]
SubDir(name, dir) == [name |-> name, dir |-> dir]
Directory(files, dirs) == [files |-> files, dirs |-> dirs]

\* (directory / name).exists()
HasFile(dir, name) == \E i \in 1..Len(dir.files) : dir.files[i].name = name

FileIndex(dir, name) == CHOOSE i \in 1..Len(dir.files) : dir.files[i].name = name

\* json.load of the file
ReadFile(dir, name) == dir.files[FileIndex(dir, name)].doc

\* json.dump to the file
WriteFile(dir, name, doc) == [dir EXCEPT !.files[FileIndex(dir, name)].doc = doc]

HasDir(dir, name) == \E i \in 1..Len(dir.dirs) : dir.dirs[i].name = name

DirIndex(dir, name) == CHOOSE i \in 1..Len(dir.dirs) : dir.dirs[i].name = name

\* The element of a one-element set. Written over {e(x) : x \in {v}}, it
\* gives e(v) with v computed once, however often e uses it.
TheOnly(S) == CHOOSE e \in S : TRUE

\* A summary node is a dict; {} is the result of a node that was skipped.
NoNode == EmptyDict

IsNode(node) == DOMAIN node # {}

\* What processing a document or a directory yields: the summary node and
\* the document or directory as it is afterwards.
Processed(node, after) == [node |-> node, after |-> after]

-----------------------------------------------------------------------------
(* MerkleTreeProcessor.process_item *)

\* list.sort() on a list of JSON strings
RECURSIVE SortStrs(_)
SortStrs(list) ==
    IF list = <<>> THEN <<>>
    ELSE LET i == CHOOSE j \in 1..Len(list) :
                     \A o \in 1..Len(list) :
                         \/ StrRank(list[j].s) < StrRank(list[o].s)
                         \/ (StrRank(list[j].s) = StrRank(list[o].s) /\ j <= o)
         IN  <<list[i]>>
                 \o SortStrs(SubSeq(list, 1, i - 1) \o SubSeq(list, i + 1, Len(list)))

HasType_AnyObject(doc, kind) == IsMap(doc)

\* doc.get('type') == kind
HasType(doc, kind) ==
    /\ IsMap(doc)
    /\ "type" \in DOMAIN doc.m
    /\ doc.m["type"] = Str(kind)

\* doc.get('id', fallback)
NodeId(doc, fallback) ==
    IF "id" \in DOMAIN doc.m THEN doc.m["id"].s ELSE fallback

\* doc.setdefault('stac_extensions', [])
DeclaredExtensions(doc) ==
    IF "stac_extensions" \in DOMAIN doc.m THEN doc.m["stac_extensions"].l ELSE <<>>

HasMarker(exts) == \E i \in 1..Len(exts) : exts[i] = Str(extension_url)

process_item(item_json, stem, method) ==
    IF ~HasType(item_json, "Feature") THEN Processed(NoNode, item_json)
    ELSE LET properties == IF "properties" \in DOMAIN item_json.m
                           THEN item_json.m["properties"]
                           ELSE Map(EmptyDict)
             exts == DeclaredExtensions(item_json)
             stac_extensions ==
                 IF HasMarker(exts) THEN exts
                 ELSE SortStrs(Append(exts, Str(extension_url)))
         IN  TheOnly({
                 IF ~outcome.ok \/ ~IsMap(properties) THEN Processed(NoNode, item_json)
                 ELSE Processed(
                          ("node_id" :> NodeId(item_json, stem))
                              @@ ("type" :> "Item")
                              @@ ("merkle:object_hash" :> outcome.value),
                          Map(SetKey(
                                  SetKey(item_json.m, "properties",
                                         Map(SetKey(properties.m, "merkle:object_hash",
                                                    Hex(outcome.value)))),
                                  "stac_extensions", List(stac_extensions)))) :
                 outcome \in {compute_merkle_object_hash(item_json, method)}})

is_item_directory_FirstIsItem(directory) ==
    /\ Len(directory.files) >= 1
    /\ HasType(directory.files[1].doc, "Feature")

\* is_item_directory(directory)
is_item_directory(directory) ==
    /\ Len(directory.files) = 1
    /\ HasType(directory.files[1].doc, "Feature")

-----------------------------------------------------------------------------
(* MerkleTreeProcessor.process_collection, process_catalog *)

\* doc.get('merkle:hash_method', parent_hash_method)
ResolveHashMethod(doc, parent_hash_method) ==
    IF "merkle:hash_method" \in DOMAIN doc.m
    THEN doc.m["merkle:hash_method"].hm
    ELSE parent_hash_method

\* for item_file in collection_dir.glob('*.json'): the Items stored alongside
\* the collection document, from the i-th file on.
RECURSIVE ProcessItemFiles(_, _, _)
ProcessItemFiles(files, i, method) ==
    IF i > Len(files) THEN [children |-> <<>>, files |-> files]
    ELSE IF files[i].name = "collection" THEN ProcessItemFiles(files, i + 1, method)
    ELSE TheOnly({
             TheOnly({
                 [children |-> (IF IsNode(item.node) THEN <<item.node>> ELSE <<>>)
                                   \o rest.children,
                  files |-> rest.files] :
                 rest \in {ProcessItemFiles([files EXCEPT ![i].doc = item.after],
                                            i + 1, method)}}) :
             item \in {process_item(files[i].doc, files[i].name, method)}})

ChildHash_AlwaysObjectHash(child) == Get(child, "merkle:object_hash", <<>>)

\* The hash a child contributes to its parent's reduction.
ChildHash(child) ==
    IF child["type"] \in {"Collection", "Catalog"}
    THEN Get(child, "merkle:root", <<>>)
    ELSE Get(child, "merkle:object_hash", <<>>)

NotEmpty(x) == x # <<>>

ChildHashes(children) ==
    SelectSeq([i \in 1..Len(children) |-> ChildHash(children[i])], NotEmpty)

\* sorted(children, key=lambda x: x['node_id'])
RECURSIVE SortByNodeId(_)
SortByNodeId(children) ==
    IF children = <<>> THEN <<>>
    ELSE LET i == CHOOSE j \in 1..Len(children) :
                     \A o \in 1..Len(children) :
                         \/ StrRank(children[j]["node_id"]) < StrRank(children[o]["node_id"])
                         \/ /\ StrRank(children[j]["node_id"]) = StrRank(children[o]["node_id"])
                            /\ j <= o
         IN  <<children[i]>>
                 \o SortByNodeId(SubSeq(children, 1, i - 1)
                                     \o SubSeq(children, i + 1, Len(children)))

\* The container document with its computed fields and the sorted
\* declared-extensions list.
WithMerkleFields(doc, own_object_hash, root, method) ==
    LET exts == DeclaredExtensions(doc)
        stac_extensions ==
            SortStrs(IF HasMarker(exts) THEN exts ELSE Append(exts, Str(extension_url)))
    IN  Map(SetKey(SetKey(SetKey(SetKey(doc.m,
                "merkle:object_hash", Hex(own_object_hash)),
                "merkle:root", Hex(root)),
                "merkle:hash_method", Method(method)),
                "stac_extensions", List(stac_extensions)))

\* From the own object hash on: the reduction, the write and the node. The
\* directory is given as the children's processing left it.
FinishNode(dir, file, doc, kind, children, method) ==
    TheOnly({
        IF ~own.ok THEN Processed(NoNode, dir)
        ELSE TheOnly({
                 IF ~root.ok THEN Processed(NoNode, dir)
                 ELSE Processed(
                          ("node_id" :> NodeId(doc, file))
                              @@ ("type" :> kind)
                              @@ ("merkle:object_hash" :> own.value)
                              @@ ("merkle:root" :> root.value)
                              @@ ("children" :> SortByNodeId(children)),
                          WriteFile(dir, file,
                                    WithMerkleFields(doc, own.value, root.value,
                                                     method))) :
                 root \in {compute_merkle_root(ChildHashes(children) \o <<own.value>>,
                                               method)}}) :
        own \in {compute_merkle_object_hash(doc, method)}})

RECURSIVE process_collection(_, _)
RECURSIVE process_catalog(_, _)
RECURSIVE ProcessSubdirectories(_, _, _)
RECURSIVE ProcessSubdirectory(_, _)
RECURSIVE ProcessCollections(_, _, _)

\* One subdirectory of a collection directory: a sub-collection, a
\* sub-catalog, an Item in its own directory, or none of these.
ProcessSubdirectory(subdirectory, method) ==
    IF HasFile(subdirectory, "collection")
    THEN process_collection(subdirectory, method)
    ELSE IF HasFile(subdirectory, "catalog")
    THEN process_catalog(subdirectory, method)
    ELSE IF is_item_directory(subdirectory)
    THEN TheOnly({
             Processed(item.node, [subdirectory EXCEPT !.files[1].doc = item.after]) :
             item \in {process_item(subdirectory.files[1].doc,
                                    subdirectory.files[1].name, method)}})
    ELSE Processed(NoNode, subdirectory)

\* for subdirectory in collection_dir.iterdir(): from the i-th one on.
ProcessSubdirectories(dirs, i, method) ==
    IF i > Len(dirs) THEN [children |-> <<>>, dirs |-> dirs]
    ELSE TheOnly({
             TheOnly({
                 [children |-> (IF IsNode(sub.node) THEN <<sub.node>> ELSE <<>>)
                                   \o rest.children,
                  dirs |-> rest.dirs] :
                 rest \in {ProcessSubdirectories([dirs EXCEPT ![i].dir = sub.after],
                                                 i + 1, method)}}) :
             sub \in {ProcessSubdirectory(dirs[i].dir, method)}})

\* process_collection(collection_path, parent_hash_method), on the directory
\* that holds collection.json
process_collection(collection_dir, parent_hash_method) ==
    LET collection_json == ReadFile(collection_dir, "collection")
    IN  IF ~HasType(collection_json, "Collection")
        THEN Processed(NoNode, collection_dir)
        ELSE LET method == ResolveHashMethod(collection_json, parent_hash_method)
             IN  IF DOMAIN method = {} THEN Processed(NoNode, collection_dir)
                 ELSE TheOnly({
                          FinishNode(Directory(items.files, subs.dirs),
                                     "collection", collection_json, "Collection",
                                     items.children \o subs.children, method) :
                          items \in {ProcessItemFiles(collection_dir.files, 1, method)},
                          subs \in {ProcessSubdirectories(collection_dir.dirs, 1, method)}})

\* for collection_dir in collections_dir.iterdir(): from the i-th one on.
ProcessCollections(dirs, i, method) ==
    IF i > Len(dirs) THEN [children |-> <<>>, dirs |-> dirs]
    ELSE TheOnly({
             TheOnly({
                 [children |-> (IF IsNode(sub.node) THEN <<sub.node>> ELSE <<>>)
                                   \o rest.children,
                  dirs |-> rest.dirs] :
                 rest \in {ProcessCollections([dirs EXCEPT ![i].dir = sub.after],
                                              i + 1, method)}}) :
             sub \in {IF HasFile(dirs[i].dir, "collection")
                      THEN process_collection(dirs[i].dir, method)
                      ELSE Processed(NoNode, dirs[i].dir)}})

\* process_catalog(catalog_path, parent_hash_method), on the directory that
\* holds catalog.json
process_catalog(dir, parent_hash_method) ==
    LET catalog_json == ReadFile(dir, "catalog")
    IN  IF ~HasType(catalog_json, "Catalog") THEN Processed(NoNode, dir)
        ELSE LET method == ResolveHashMethod(catalog_json, parent_hash_method)
             IN  IF DOMAIN method = {} THEN Processed(NoNode, dir)
                 ELSE TheOnly({
                          FinishNode(
                              IF HasDir(dir, "collections")
                              THEN [dir EXCEPT
                                       !.dirs[DirIndex(dir, "collections")].dir.dirs =
                                           subs.dirs]
                              ELSE dir,
                              "catalog", catalog_json, "Catalog", subs.children, method) :
                          subs \in {IF HasDir(dir, "collections")
                                    THEN ProcessCollections(
                                             dir.dirs[DirIndex(dir, "collections")].dir.dirs,
                                             1, method)
                                    ELSE [children |-> <<>>, dirs |-> <<>>]}})

-----------------------------------------------------------------------------
(* The order in which a build takes its steps *)

\* A step of the build at the document named id: its processing began; its
\* merkle:root was computed from the nodes of the named children; its
\* document was written; or it was skipped.
Step(step, id, children) == [step |-> step, id |-> id, children |-> children]

\* process_item, called on one file
ItemSteps(item_json, stem, method) ==
    LET id == NodeId(item_json, stem)
    IN  <<Step("began", id, {}),
          IF IsNode(process_item(item_json, stem, method).node)
          THEN Step("written", id, {}) ELSE Step("skipped", id, {})>>

RECURSIVE ItemFilesSteps(_, _, _)
ItemFilesSteps(files, i, method) ==
    IF i > Len(files) THEN <<>>
    ELSE (IF files[i].name = "collection" THEN <<>>
          ELSE ItemSteps(files[i].doc, files[i].name, method))
             \o ItemFilesSteps(files, i + 1, method)

\* The end of process_collection and process_catalog: the root computed
\* from the children gathered, then the document written.
FinishSteps(id, node) ==
    IF IsNode(node)
    THEN <<Step("root", id, {node["children"][i]["node_id"] :
                                i \in 1..Len(node["children"])}),
           Step("written", id, {})>>
    ELSE <<Step("skipped", id, {})>>

RECURSIVE CollectionSteps(_, _)
RECURSIVE CatalogSteps(_, _)
RECURSIVE SubdirectoriesSteps(_, _, _)
RECURSIVE CollectionsSteps(_, _, _)

SubdirectoriesSteps(dirs, i, method) ==
    IF i > Len(dirs) THEN <<>>
    ELSE (IF HasFile(dirs[i].dir, "collection")
          THEN CollectionSteps(dirs[i].dir, method)
          ELSE IF HasFile(dirs[i].dir, "catalog")
          THEN CatalogSteps(dirs[i].dir, method)
          ELSE IF is_item_directory(dirs[i].dir)
          THEN ItemSteps(dirs[i].dir.files[1].doc, dirs[i].dir.files[1].name, method)
          ELSE <<>>)
             \o SubdirectoriesSteps(dirs, i + 1, method)

CollectionSteps_RootBeforeSubdirectories(collection_dir, parent_hash_method) ==
    LET collection_json == ReadFile(collection_dir, "collection")
        id == NodeId(collection_json, "collection")
        method == ResolveHashMethod(collection_json, parent_hash_method)
    IN  <<Step("began", id, {})>>
            \o (IF ~HasType(collection_json, "Collection") \/ DOMAIN method = {}
                THEN <<Step("skipped", id, {})>>
                ELSE ItemFilesSteps(collection_dir.files, 1, method)
                         \o FinishSteps(id, process_collection(collection_dir,
                                                               parent_hash_method).node)
                         \o SubdirectoriesSteps(collection_dir.dirs, 1, method))

\* process_collection: the Items alongside, the subdirectories, then the
\* collection itself.
CollectionSteps(collection_dir, parent_hash_method) ==
    LET collection_json == ReadFile(collection_dir, "collection")
        id == NodeId(collection_json, "collection")
        method == ResolveHashMethod(collection_json, parent_hash_method)
    IN  <<Step("began", id, {})>>
            \o (IF ~HasType(collection_json, "Collection") \/ DOMAIN method = {}
                THEN <<Step("skipped", id, {})>>
                ELSE ItemFilesSteps(collection_dir.files, 1, method)
                         \o SubdirectoriesSteps(collection_dir.dirs, 1, method)
                         \o FinishSteps(id, process_collection(collection_dir,
                                                               parent_hash_method).node))

CollectionsSteps(dirs, i, method) ==
    IF i > Len(dirs) THEN <<>>
    ELSE (IF HasFile(dirs[i].dir, "collection")
          THEN CollectionSteps(dirs[i].dir, method) ELSE <<>>)
             \o CollectionsSteps(dirs, i + 1, method)

\* process_catalog: the collections of the collections directory, then the
\* catalog itself.
CatalogSteps(dir, parent_hash_method) ==
    LET catalog_json == ReadFile(dir, "catalog")
        id == NodeId(catalog_json, "catalog")
        method == ResolveHashMethod(catalog_json, parent_hash_method)
    IN  <<Step("began", id, {})>>
            \o (IF ~HasType(catalog_json, "Catalog") \/ DOMAIN method = {}
                THEN <<Step("skipped", id, {})>>
                ELSE (IF HasDir(dir, "collections")
                      THEN CollectionsSteps(
                               dir.dirs[DirIndex(dir, "collections")].dir.dirs, 1, method)
                      ELSE <<>>)
                         \o FinishSteps(id, process_catalog(dir, parent_hash_method).node))

-----------------------------------------------------------------------------
(* MerkleTreeVerifier.calculate_merkle_root_with_discrepancies,
   verify_merkle_tree *)

\* The hash method of a node that has none.
DefaultHashMethod ==
    [function |-> Sha256Name, fields |-> <<"*">>, ordering |-> "ascending",
     description |-> "Default hash method."]

\* f"{node_type} '{node_id}' has mismatched merkle:root."
Discrepancy(node) ==
    [type |-> Get(node, "type", "Unknown"), node_id |-> Get(node, "node_id", "Unknown")]

\* What the recursion hands back: the recomputed root and the list of
\* discrepancies as it stands.
Recomputed(root, found) == [root |-> root, discrepancies |-> found]

RECURSIVE calculate_merkle_root_with_discrepancies(_, _)
RECURSIVE ChildRoots(_, _, _)

RECURSIVE ChildRoots_StoredRoots(_, _, _)
ChildRoots_StoredRoots(children, i, found) ==
    IF i > Len(children) THEN Ok([child_hashes |-> <<>>, discrepancies |-> found])
    ELSE TheOnly({
             IF ~child.ok THEN child
             ELSE TheOnly({
                      IF ~rest.ok THEN rest
                      ELSE Ok([child_hashes |->
                                   <<Get(children[i], "merkle:root", child.value.root)>>
                                       \o rest.value.child_hashes,
                               discrepancies |-> rest.value.discrepancies]) :
                      rest \in {ChildRoots_StoredRoots(children, i + 1,
                                                       child.value.discrepancies)}}) :
             child \in {calculate_merkle_root_with_discrepancies(children[i], found)}})

RECURSIVE ChildRoots_ForgetBelow(_, _, _)
ChildRoots_ForgetBelow(children, i, found) ==
    IF i > Len(children) THEN Ok([child_hashes |-> <<>>, discrepancies |-> found])
    ELSE TheOnly({
             IF ~child.ok THEN child
             ELSE TheOnly({
                      IF ~rest.ok THEN rest
                      ELSE Ok([child_hashes |->
                                   (IF child.value.root # <<>>
                                    THEN <<child.value.root>> ELSE <<>>)
                                       \o rest.value.child_hashes,
                               discrepancies |-> rest.value.discrepancies]) :
                      rest \in {ChildRoots_ForgetBelow(children, i + 1, found)}}) :
             child \in {calculate_merkle_root_with_discrepancies(children[i], found)}})

\* for child in node.get('children', []): the recomputed roots of the
\* children from the i-th on, the empty ones left out.
ChildRoots(children, i, found) ==
    IF i > Len(children) THEN Ok([child_hashes |-> <<>>, discrepancies |-> found])
    ELSE TheOnly({
             IF ~child.ok THEN child
             ELSE TheOnly({
                      IF ~rest.ok THEN rest
                      ELSE Ok([child_hashes |->
                                   (IF child.value.root # <<>>
                                    THEN <<child.value.root>> ELSE <<>>)
                                       \o rest.value.child_hashes,
                               discrepancies |-> rest.value.discrepancies]) :
                      rest \in {ChildRoots(children, i + 1,
                                           child.value.discrepancies)}}) :
             child \in {calculate_merkle_root_with_discrepancies(children[i], found)}})

calculate_merkle_root_with_discrepancies(node, found) ==
    LET method == Get(node, "merkle:hash_method", DefaultHashMethod)
    IN  IF "type" \notin DOMAIN node THEN Raise("KeyError: 'type'")
        ELSE IF node["type"] = "Item"
        THEN IF "merkle:object_hash" \in DOMAIN node
             THEN Ok(Recomputed(node["merkle:object_hash"], found))
             ELSE Raise("KeyError: 'merkle:object_hash'")
        ELSE TheOnly({
                 IF ~below.ok THEN below
                 ELSE LET own_hash == Get(node, "merkle:object_hash", <<>>)
                          child_hashes ==
                              below.value.child_hashes
                                  \o (IF own_hash # <<>> THEN <<own_hash>> ELSE <<>>)
                          calculated == verifier_compute_merkle_root(child_hashes, method)
                      IN  IF ~calculated.ok THEN calculated
                          ELSE Ok(Recomputed(
                                   calculated.value,
                                   IF \/ "merkle:root" \notin DOMAIN node
                                      \/ node["merkle:root"] # calculated.value
                                   THEN Append(below.value.discrepancies, Discrepancy(node))
                                   ELSE below.value.discrepancies)) :
                 below \in {ChildRoots(Get(node, "children", <<>>), 1, found)}})

\* verify_merkle_tree returned True or False.
Verified(b) == [ok |-> TRUE, value |-> b, error |-> "none"]

\* verify_merkle_tree caught an exception and returned {}.
VerifyFailed(e) == [ok |-> FALSE, value |-> FALSE, error |-> e]

\* What a verify_merkle_tree call leaves: what it returned, the root it
\* recomputed for the top node and the discrepancies it recorded.
Verification(result, root, found) ==
    [result |-> result, calculated_root |-> root, discrepancies |-> found]

\* verify_merkle_tree(merkle_tree_path), on the summary the file holds
verify_merkle_tree(tree) ==
    TheOnly({
        IF ~recomputed.ok
        THEN Verification(VerifyFailed(recomputed.error), <<>>, <<>>)
        ELSE LET original_root == Get(tree, "merkle:root", <<>>)
             IN  Verification(
                     IF original_root = <<>> THEN Verified(FALSE)
                     ELSE Verified(recomputed.value.root = original_root),
                     recomputed.value.root,
                     recomputed.value.discrepancies) :
        recomputed \in {calculate_merkle_root_with_discrepancies(tree, <<>>)}})

\* cli verify: exit status 0 when the result is truthy, 1 otherwise.
VerifyExitStatus(result) == IF result.ok /\ result.value THEN 0 ELSE 1

-----------------------------------------------------------------------------
(* Builds and verifications of bounded document trees *)

\* The root hash method of the compute command.
CliRootMethod ==
    [function |-> Sha256Name, fields |-> <<"*">>, ordering |-> "ascending",
     description |-> "Computed by including the merkle:root of collections and the catalog's own merkle:object_hash."]

Md5Method == [function |-> Md5Name, fields |-> <<"*">>, ordering |-> "ascending"]
DescendingMethod == [function |-> Sha256Name, fields |-> <<"*">>, ordering |-> "descending"]
UnsortedMethod == [function |-> Sha256Dashed, fields |-> <<"*">>, ordering |-> "unsorted"]
BadMethod == [function |-> BadName, fields |-> <<"*">>, ordering |-> "ascending"]
BadOrdering == [function |-> Sha256Name, fields |-> <<"*">>, ordering |-> "random"]

\* The document declares no hash method.
Undeclared == [undeclared |-> TRUE]

\* A document of the given kind, with the merkle:hash_method it declares,
\* if any.
Document(kind, id, declared) ==
    Map(("type" :> Str(kind)) @@ ("id" :> Str(id))
        @@ (IF "undeclared" \in DOMAIN declared THEN EmptyDict
            ELSE ("merkle:hash_method" :> Method(declared))))

ItemJson(id) ==
    Map([type |-> Str("Feature"), id |-> Str(id),
         properties |-> Map([datetime |-> Str("v1")])])

\* The document with the extensions it declares, in the order it lists them.
WithExtensions(doc, urls) ==
    Map(SetKey(doc.m, "stac_extensions", List([i \in 1..Len(urls) |-> Str(urls[i])])))

CatalogDirectory(declared, collections) ==
    Directory(<<File("catalog", Document("Catalog", "cat", declared))>>,
              <<SubDir("collections", Directory(<<>>, collections))>>)

CollectionDirectory(id, declared, items, dirs) ==
    Directory(<<File("collection", Document("Collection", id, declared))>> \o items,
              dirs)

\* The trees: a catalog without a collections directory; one collection with
\* one Item alongside; a collection with an Item alongside and an Item in
\* its own directory, next to an empty collection; a collection that holds
\* a sub-collection; a collection that holds an Item and a document without
\* a kind marker, next to a directory whose collection.json has the wrong
\* marker and to a sound collection; a collection laid out as the tests lay
\* one out, its Item in a directory of its own and its sub-collection under
\* a collections directory; a collection with an Item alongside, an Item
\* alone in a subdirectory, and subdirectories that hold two Items, one
\* document that is no Item, and no document; a collection whose documents
\* declare extensions already: the collection the marker, one Item the
\* marker after another extension, one Item another extension only.
Trees(catalog_declared, collection_declared) ==
    { Directory(<<File("catalog", Document("Catalog", "cat", catalog_declared))>>, <<>>),
      CatalogDirectory(catalog_declared,
          <<SubDir("c1", CollectionDirectory("c1", collection_declared,
                             <<File("i1", ItemJson("i1"))>>, <<>>))>>),
      CatalogDirectory(catalog_declared,
          <<SubDir("c2", CollectionDirectory("c2", Undeclared, <<>>, <<>>)),
            SubDir("c1", CollectionDirectory("c1", collection_declared,
                             <<File("i2", ItemJson("i2"))>>,
                             <<SubDir("i1", Directory(<<File("i1", ItemJson("i1"))>>,
                                                      <<>>))>>))>>),
      CatalogDirectory(catalog_declared,
          <<SubDir("c1", CollectionDirectory("c1", collection_declared,
                             <<File("i1", ItemJson("i1"))>>,
                             <<SubDir("c2", CollectionDirectory("c2", Undeclared,
                                                <<File("i2", ItemJson("i2"))>>,
                                                <<>>))>>))>> ),
      CatalogDirectory(catalog_declared,
          <<SubDir("c1", CollectionDirectory("c1", collection_declared,
                             <<File("i1", ItemJson("i1")),
                               File("x", Map([id |-> Str("x")]))>>, <<>>)),
            SubDir("c3", Directory(<<File("collection",
                                          Document("Other", "c3", Undeclared))>>,
                                   <<>>)),
            SubDir("c2", CollectionDirectory("c2", Undeclared,
                             <<File("i2", ItemJson("i2"))>>, <<>>))>> ),
      CatalogDirectory(catalog_declared,
          <<SubDir("c1", CollectionDirectory("c1", Undeclared, <<>>,
                <<SubDir("i1", Directory(<<File("i1", ItemJson("i1"))>>, <<>>)),
                  SubDir("collections", Directory(<<>>,
                      <<SubDir("c2", CollectionDirectory("c2", Undeclared, <<>>,
                            <<SubDir("i2", Directory(<<File("i2", ItemJson("i2"))>>,
                                                     <<>>))>>))>>))>>))>> ),
      CatalogDirectory(catalog_declared,
          <<SubDir("c1", CollectionDirectory("c1", Undeclared,
                <<File("i1", ItemJson("i1"))>>,
                <<SubDir("i2", Directory(<<File("i2", ItemJson("i2"))>>, <<>>)),
                  SubDir("pair", Directory(<<File("i3", ItemJson("i3")),
                                             File("i4", ItemJson("i4"))>>, <<>>)),
                  SubDir("solo", Directory(<<File("x", Map([id |-> Str("x")]))>>,
                                           <<>>)),
                  SubDir("none", Directory(<<>>, <<>>))>>))>> ),
      CatalogDirectory(catalog_declared,
          <<SubDir("c1", Directory(
                <<File("collection",
                       WithExtensions(Document("Collection", "c1", Undeclared),
                                      <<extension_url>>)),
                  File("i1", WithExtensions(ItemJson("i1"),
                                            <<ViewExtension, extension_url>>)),
                  File("i2", WithExtensions(ItemJson("i2"), <<EoExtension>>))>>,
                <<>>))>> ) }

CatalogDeclared == {Undeclared, Md5Method, DescendingMethod, UnsortedMethod}
CollectionDeclared == {Undeclared, Md5Method, BadMethod, BadOrdering, EmptyDict}
RootHashMethods == {CliRootMethod, DescendingMethod, EmptyDict}

InitTree ==
    /\ \E catalog_declared \in CatalogDeclared,
          collection_declared \in CollectionDeclared :
           catalog_dir \in Trees(catalog_declared, collection_declared)
    /\ root_hash_method \in RootHashMethods
    /\ merkle_tree = NotBuilt
    /\ verification_result = VerifyNotCalled
    /\ discrepancies = <<>>
    /\ calculated_root = <<>>
    /\ tree_edits = <<>>
    /\ relisted_dir = catalog_dir
    /\ relisted_tree = NotBuilt
    /\ relists = 0
    /\ build_log = <<>>
    /\ rebuilt_dir = <<>>
    /\ rebuilt_tree = NotBuilt
    /\ IdleRoot
    /\ hash_method = EmptyDict
    /\ IdleHash
    /\ IdleProof

Built == "pending" \notin DOMAIN merkle_tree

\* The build returned a summary, which was saved.
Saved == Built /\ IsNode(merkle_tree)

\* processor.process_catalog(catalog_json_path, root_hash_method), and the
\* summary saved when it is not empty.
Build ==
    /\ ~Built
    /\ \E built \in {process_catalog(catalog_dir, root_hash_method)} :
           /\ catalog_dir' = built.after
           /\ merkle_tree' = built.node
    /\ build_log' = CatalogSteps(catalog_dir, root_hash_method)
    /\ UNCHANGED <<root_hash_method, verification_result, discrepancies,
                   calculated_root, tree_edits, relistVars, rebuildVars,
                   rootVars, hashVars, proofVars>>

\* Where the Item documents of a tree are: the subdirectories to go through,
\* the file, and the ids of the Catalogs and Collections above it, the top
\* one first.
RECURSIVE ItemSlots(_, _, _)
ItemSlots(dir, path, above) ==
    LET ancestors ==
            IF HasFile(dir, "catalog")
            THEN Append(above, NodeId(ReadFile(dir, "catalog"), "catalog"))
            ELSE IF HasFile(dir, "collection")
            THEN Append(above, NodeId(ReadFile(dir, "collection"), "collection"))
            ELSE above
    IN  {[dirs |-> path, file |-> j, ancestors |-> ancestors] :
            j \in {k \in 1..Len(dir.files) : HasType(dir.files[k].doc, "Feature")}}
          \cup UNION {ItemSlots(dir.dirs[i].dir, Append(path, i), ancestors) :
                         i \in 1..Len(dir.dirs)}

RECURSIVE DocAt(_, _, _)
DocAt(dir, path, j) ==
    IF path = <<>> THEN dir.files[j].doc
    ELSE DocAt(dir.dirs[Head(path)].dir, Tail(path), j)

RECURSIVE WriteDocAt(_, _, _, _)
WriteDocAt(dir, path, j, doc) ==
    IF path = <<>> THEN [dir EXCEPT !.files[j].doc = doc]
    ELSE [dir EXCEPT !.dirs[Head(path)].dir = WriteDocAt(@, Tail(path), j, doc)]

\* The places of the nodes of a summary: the indexes of the children to go
\* through from the top node.
RECURSIVE NodePaths(_)
NodePaths(node) ==
    LET children == Get(node, "children", <<>>)
    IN  {<<>>} \cup UNION {{<<i>> \o below : below \in NodePaths(children[i])} :
                              i \in 1..Len(children)}

RECURSIVE NodeAt(_, _)
NodeAt(node, path) ==
    IF path = <<>> THEN node ELSE NodeAt(node["children"][Head(path)], Tail(path))

RECURSIVE SetNodeKeyAt(_, _, _, _)
SetNodeKeyAt(node, path, key, value) ==
    IF path = <<>> THEN SetKey(node, key, value)
    ELSE [node EXCEPT !["children"][Head(path)] =
                          SetNodeKeyAt(@, Tail(path), key, value)]

RECURSIVE DelNodeKeyAt(_, _, _)
DelNodeKeyAt(node, path, key) ==
    IF path = <<>> THEN DelKey(node, key)
    ELSE [node EXCEPT !["children"][Head(path)] = DelNodeKeyAt(@, Tail(path), key)]

\* The places of the directories of a tree: the indexes of the
\* subdirectories to go through from the top one.
RECURSIVE DirPaths(_)
DirPaths(dir) ==
    {<<>>} \cup UNION {{<<i>> \o below : below \in DirPaths(dir.dirs[i].dir)} :
                          i \in 1..Len(dir.dirs)}

RECURSIVE ListingAt(_, _)
ListingAt(dir, path) ==
    IF path = <<>> THEN dir ELSE ListingAt(dir.dirs[Head(path)].dir, Tail(path))

RECURSIVE SetListingAt(_, _, _)
SetListingAt(dir, path, listing) ==
    IF path = <<>> THEN listing
    ELSE [dir EXCEPT !.dirs[Head(path)].dir = SetListingAt(@, Tail(path), listing)]

\* The list with its i-th and (i+1)-th entries exchanged.
SwapAt(list, i) == [list EXCEPT ![i] = list[i + 1], ![i + 1] = list[i]]

RelistedBuilt == "pending" \notin DOMAIN relisted_tree

Rebuilt == "pending" \notin DOMAIN rebuilt_tree

\* Another run finds the same documents, but glob('*.json') or iterdir()
\* of one directory yields two neighbouring entries in the other order.
Relist ==
    /\ ~Built
    /\ ~RelistedBuilt
    /\ relists < MaxRelists
    /\ \E path \in DirPaths(relisted_dir) :
           LET listing == ListingAt(relisted_dir, path)
           IN  \/ \E i \in 1..(Len(listing.files) - 1) :
                      relisted_dir' =
                          SetListingAt(relisted_dir, path,
                                       [listing EXCEPT !.files = SwapAt(@, i)])
               \/ \E i \in 1..(Len(listing.dirs) - 1) :
                      relisted_dir' =
                          SetListingAt(relisted_dir, path,
                                       [listing EXCEPT !.dirs = SwapAt(@, i)])
    /\ relists' = relists + 1
    /\ UNCHANGED <<catalog_dir, root_hash_method, merkle_tree, verification_result,
                   discrepancies, calculated_root, tree_edits, relisted_tree,
                   build_log, rebuildVars, rootVars, hashVars, proofVars>>

\* processor.process_catalog(catalog_json_path, root_hash_method) of that run,
\* set beside the first build as it returned: a behaviour compares the two
\* runs, or builds twice, or changes what was built, one of the three.
BuildRelisted ==
    /\ Built
    /\ tree_edits = <<>>
    /\ ~Rebuilt
    /\ ~RelistedBuilt
    /\ \E built \in {process_catalog(relisted_dir, root_hash_method)} :
           /\ relisted_dir' = built.after
           /\ relisted_tree' = built.node
    /\ UNCHANGED <<catalog_dir, root_hash_method, merkle_tree, verification_result,
                   discrepancies, calculated_root, tree_edits, relists,
                   build_log, rebuildVars, rootVars, hashVars, proofVars>>

\* processor.process_catalog(catalog_json_path, root_hash_method) run once
\* more, on the documents as the first build wrote them.
Rebuild ==
    /\ Saved
    /\ tree_edits = <<>>
    /\ relists = 0
    /\ ~RelistedBuilt
    /\ ~Rebuilt
    /\ \E built \in {process_catalog(catalog_dir, root_hash_method)} :
           /\ rebuilt_dir' = built.after
           /\ rebuilt_tree' = built.node
    /\ UNCHANGED <<catalog_dir, root_hash_method, merkle_tree, verification_result,
                   discrepancies, calculated_root, tree_edits, relistVars,
                   build_log, rootVars, hashVars, proofVars>>

Edit(kind, ids) == [kind |-> kind, ids |-> ids]

\* The documents and the summary of the first build can be changed as long
\* as no second build has overwritten them and no other run is compared.
MayEditTree ==
    /\ Saved
    /\ ~Rebuilt
    /\ relists = 0
    /\ ~RelistedBuilt
    /\ verification_result = VerifyNotCalled
    /\ Len(tree_edits) < MaxTreeEdits

\* The content of one Item document is changed after the build; the saved
\* summary is left as it is.
TamperItem ==
    /\ MayEditTree
    /\ \E slot \in ItemSlots(catalog_dir, <<>>, <<>>) :
           LET item_json == DocAt(catalog_dir, slot.dirs, slot.file)
               changed ==
                   Map(SetKey(item_json.m, "properties",
                              Map(SetKey(item_json.m["properties"].m,
                                         "datetime", Str("v2")))))
           IN  /\ catalog_dir' = WriteDocAt(catalog_dir, slot.dirs, slot.file, changed)
               /\ tree_edits' = Append(tree_edits, Edit("item", slot.ancestors))
    /\ UNCHANGED <<root_hash_method, merkle_tree, verification_result,
                   discrepancies, calculated_root, relistVars,
                   build_log, rebuildVars, rootVars, hashVars, proofVars>>

\* The merkle:root stored on one Catalog or Collection node of the saved
\* summary is replaced by another digest.
TamperStoredRoot ==
    /\ MayEditTree
    /\ \E path \in NodePaths(merkle_tree) :
           LET node == NodeAt(merkle_tree, path)
           IN  /\ "merkle:root" \in DOMAIN node
               /\ node["merkle:root"] # D3
               /\ merkle_tree' = SetNodeKeyAt(merkle_tree, path, "merkle:root", D3)
               /\ tree_edits' = Append(tree_edits,
                                       Edit(IF path = <<>> THEN "top root" ELSE "root",
                                            <<node["node_id"]>>))
    /\ UNCHANGED <<catalog_dir, root_hash_method, verification_result,
                   discrepancies, calculated_root, relistVars,
                   build_log, rebuildVars, rootVars, hashVars, proofVars>>

\* The merkle:object_hash stored on one node of the saved summary is
\* replaced by another digest.
TamperStoredObjectHash ==
    /\ MayEditTree
    /\ \E path \in NodePaths(merkle_tree) :
           LET node == NodeAt(merkle_tree, path)
           IN  /\ "merkle:object_hash" \in DOMAIN node
               /\ node["merkle:object_hash"] # D3
               /\ merkle_tree' = SetNodeKeyAt(merkle_tree, path, "merkle:object_hash", D3)
               /\ tree_edits' = Append(tree_edits,
                                       Edit("object_hash", <<node["node_id"]>>))
    /\ UNCHANGED <<catalog_dir, root_hash_method, verification_result,
                   discrepancies, calculated_root, relistVars,
                   build_log, rebuildVars, rootVars, hashVars, proofVars>>

\* One node of the saved summary is left in a state the verifier cannot
\* process: without its type, an Item without its object hash, with an
\* object hash that is no hexadecimal text, or with a hash method whose
\* function or ordering is unsupported.
DamageNode ==
    /\ MayEditTree
    /\ \E path \in NodePaths(merkle_tree) :
           LET node == NodeAt(merkle_tree, path)
           IN  /\ \/ merkle_tree' = SetNodeKeyAt(merkle_tree, path, "merkle:object_hash",
                                                 BadDigest)
                  \/ \E method \in {BadMethod, BadOrdering} :
                         merkle_tree' = SetNodeKeyAt(merkle_tree, path,
                                                     "merkle:hash_method", method)
                  \/ \E key \in {"type", "merkle:object_hash"} :
                         /\ key = "merkle:object_hash" =>
                                Get(node, "type", "Unknown") = "Item"
                         /\ merkle_tree' = DelNodeKeyAt(merkle_tree, path, key)
               /\ tree_edits' = Append(tree_edits, Edit("damage", <<node["node_id"]>>))
    /\ UNCHANGED <<catalog_dir, root_hash_method, verification_result,
                   discrepancies, calculated_root, relistVars,
                   build_log, rebuildVars, rootVars, hashVars, proofVars>>

\* verifier.verify_merkle_tree(merkle_tree_path)
Verify ==
    /\ Saved
    /\ verification_result = VerifyNotCalled
    /\ \E verification \in {verify_merkle_tree(merkle_tree)} :
           /\ verification_result' = verification.result
           /\ discrepancies' = verification.discrepancies
           /\ calculated_root' = verification.calculated_root
    /\ UNCHANGED <<catalog_dir, root_hash_method, merkle_tree, tree_edits,
                   relistVars, build_log, rebuildVars,
                   rootVars, hashVars, proofVars>>

NextTree ==
    \/ Build
    \/ Relist
    \/ BuildRelisted
    \/ Rebuild
    \/ TamperItem
    \/ TamperStoredRoot
    \/ TamperStoredObjectHash
    \/ DamageNode
    \/ Verify

SpecTree == InitTree /\ [][NextTree]_vars

-----------------------------------------------------------------------------
(* Claims about the tree builder and the tree verifier, under SpecTree *)

VerifyCalled == verification_result # VerifyNotCalled

\* Some recorded discrepancy names the node.
DiscrepancyAt(node_id) ==
    \E i \in 1..Len(discrepancies) : discrepancies[i].node_id = node_id

\* C1: verifying the summary right after the build that returned it, with
\* nothing changed in between, reports a matching top-level root and no
\* discrepancy, whatever hash method the root call or a document declares.
C1_Original_BuildThenVerifyIsClean ==
    (VerifyCalled /\ tree_edits = <<>>) =>
        /\ verification_result = Verified(TRUE)
        /\ discrepancies = <<>>

\* C2: when the content of an Item document was changed after the build
\* and the unmodified saved summary is verified, a discrepancy is recorded
\* at every Collection and Catalog above that Item.
C2_Original_ItemTamperingIsDetected ==
    (VerifyCalled /\ tree_edits # <<>>
        /\ \A i \in 1..Len(tree_edits) : tree_edits[i].kind = "item") =>
        \A i \in 1..Len(tree_edits) :
            \A k \in 1..Len(tree_edits[i].ids) : DiscrepancyAt(tree_edits[i].ids[k])

\* C10: the verification reports success (the verify command exits with
\* status 0) iff the recomputed root of the top node equals the stored
\* top-level root and no discrepancy was recorded at any node below it.
C10_Original_SuccessIffNoDiscrepancy ==
    VerifyCalled =>
        (VerifyExitStatus(verification_result) = 0 <=>
            /\ "merkle:root" \in DOMAIN merkle_tree
            /\ calculated_root = merkle_tree["merkle:root"]
            /\ discrepancies = <<>>)

\* C11: two builds of the same documents that enumerate a directory's
\* entries in different orders return the same summary: the same children
\* in the same order, with the same object hashes and the same merkle:root
\* at every node, whatever the hash method, ordering unsorted included.
C11_Original_ListingOrderNeverMatters ==
    (Built /\ RelistedBuilt /\ tree_edits = <<>>) => relisted_tree = merkle_tree

\* The Catalog and Collection documents of a tree, as they are on disk.
RECURSIVE ContainerDocs(_)
ContainerDocs(dir) ==
    {dir.files[j].doc : j \in {k \in 1..Len(dir.files) :
                                  dir.files[k].name \in {"catalog", "collection"}}}
        \cup UNION {ContainerDocs(dir.dirs[i].dir) : i \in 1..Len(dir.dirs)}

\* The document a Catalog or Collection node of the summary was built from.
DocumentOf(node) ==
    CHOOSE doc \in ContainerDocs(catalog_dir) : NodeId(doc, "") = node["node_id"]

\* The Catalog and Collection nodes of the summary.
ContainerNodes ==
    {NodeAt(merkle_tree, path) : path \in NodePaths(merkle_tree)}
        \ {node \in {NodeAt(merkle_tree, path) : path \in NodePaths(merkle_tree)} :
               node["type"] = "Item"}

\* What the children listed on a node are expected to contribute: the
\* merkle:root of a Collection or Catalog, the merkle:object_hash of an Item.
ExpectedChildHashes(node) ==
    [i \in 1..Len(node["children"]) |->
        IF node["children"][i]["type"] = "Item"
        THEN node["children"][i]["merkle:object_hash"]
        ELSE node["children"][i]["merkle:root"]]

Arrangements(list) ==
    {p \in [1..Len(list) -> {list[i] : i \in 1..Len(list)}] : IsPermutation(p, list)}

\* C12: the merkle:root of every Collection and Catalog node of a build is
\* the reduction, under the hash method resolved for that node, of the
\* hashes of the children listed on it (merkle:root of a Collection or
\* Catalog child, merkle:object_hash of an Item child) followed by the
\* node's own object hash: nothing more, nothing less.
C12_RootReducesChildrenAndOwnHash ==
    (Saved /\ tree_edits = <<>>) =>
        \A node \in ContainerNodes :
            \E p \in Arrangements(ExpectedChildHashes(node)) :
                Ok(node["merkle:root"]) =
                    compute_merkle_root(
                        p \o <<node["merkle:object_hash"]>>,
                        DocumentOf(node).m["merkle:hash_method"].hm)

C12_Witness ==
    /\ Saved
    /\ tree_edits = <<>>
    /\ \E node \in ContainerNodes :
           /\ \E i \in 1..Len(node["children"]) : node["children"][i]["type"] = "Item"
           /\ \E i \in 1..Len(node["children"]) :
                  /\ node["children"][i]["type"] = "Collection"
                  /\ node["children"][i]["children"] # <<>>
           /\ DocumentOf(node).m["merkle:hash_method"].hm["ordering"] = "unsorted"

\* The documents as they were before the build: the second run's copy, as
\* long as that run has not built.
OriginalDir == relisted_dir

\* The Item documents of a tree.
RECURSIVE FeatureDocs(_)
FeatureDocs(dir) ==
    {dir.files[j].doc : j \in {k \in 1..Len(dir.files) :
                                  HasType(dir.files[k].doc, "Feature")}}
        \cup UNION {FeatureDocs(dir.dirs[i].dir) : i \in 1..Len(dir.dirs)}

Declares(doc) == "merkle:hash_method" \in DOMAIN doc.m

\* The effective method as stated: the declared one when the document has
\* one, otherwise the inherited one.
StatedMethod(doc, inherited) ==
    IF Declares(doc) THEN doc.m["merkle:hash_method"].hm ELSE inherited

\* For every Catalog and Collection document of a tree: its id, the id of
\* the container above it, the method it inherits and its effective method
\* as stated.
RECURSIVE StatedMethods(_, _, _)
StatedMethods(dir, parent, inherited) ==
    LET here == IF HasFile(dir, "catalog") THEN <<ReadFile(dir, "catalog")>>
                ELSE IF HasFile(dir, "collection") THEN <<ReadFile(dir, "collection")>>
                ELSE <<>>
        id == IF here = <<>> THEN parent ELSE NodeId(here[1], "")
        method == IF here = <<>> THEN inherited ELSE StatedMethod(here[1], inherited)
    IN  {[id |-> id, doc |-> here[i], parent |-> parent, inherited |-> inherited,
          method |-> method] : i \in 1..Len(here)}
            \cup UNION {StatedMethods(dir.dirs[i].dir, id, method) :
                           i \in 1..Len(dir.dirs)}

SummaryIds ==
    IF Saved THEN {node["node_id"] : node \in ContainerNodes} ELSE {}

\* C13: in a build the effective hash method of every Collection and
\* Catalog is its own declared merkle:hash_method when its document has one
\* and otherwise the effective method of its parent; the Items under it are
\* hashed with that method; and it fails for want of a hash method only
\* when it declares none and inherits none.
C13_Original_DeclaredElseInherited ==
    (Built /\ ~RelistedBuilt /\ tree_edits = <<>>) =>
        \A e \in StatedMethods(OriginalDir, "", root_hash_method) :
            /\ e.id \in SummaryIds =>
                   \E node \in ContainerNodes :
                       /\ node["node_id"] = e.id
                       /\ DocumentOf(node).m["merkle:hash_method"].hm = e.method
                       /\ \A i \in 1..Len(node["children"]) :
                              node["children"][i]["type"] = "Item" =>
                                  \E item \in FeatureDocs(OriginalDir) :
                                      /\ NodeId(item, "") = node["children"][i]["node_id"]
                                      /\ Ok(node["children"][i]["merkle:object_hash"])
                                             = compute_merkle_object_hash(item, e.method)
            /\ (/\ e.parent = "" \/ e.parent \in SummaryIds
                /\ HasType(e.doc, "Catalog") \/ HasType(e.doc, "Collection")
                /\ e.id \notin SummaryIds
                /\ DOMAIN ResolveHashMethod(e.doc, e.inherited) = {})
                   => (~Declares(e.doc) /\ DOMAIN e.inherited = {})

\* The nodes of the summary, Items included.
SummaryNodes == {NodeAt(merkle_tree, path) : path \in NodePaths(merkle_tree)}

\* The Item document an Item node of the summary was built from, as it is
\* on disk.
ItemDocumentOf(node) ==
    CHOOSE doc \in FeatureDocs(catalog_dir) : NodeId(doc, "") = node["node_id"]

\* C14: after a build every node, Item, Collection or Catalog, carries the
\* hash method that was resolved for it: its document holds it, and the
\* summary node holds the same method, so that a verification can take it
\* from the node.
C14_Original_MethodPersistedOnEveryNode ==
    (Saved /\ tree_edits = <<>>) =>
        \A node \in SummaryNodes :
            LET doc == IF node["type"] = "Item" THEN ItemDocumentOf(node)
                       ELSE DocumentOf(node)
            IN  /\ Declares(doc)
                /\ "merkle:hash_method" \in DOMAIN node
                /\ node["merkle:hash_method"] = doc.m["merkle:hash_method"].hm

\* The document is an object whose kind marker is the given one.
MarkedAs(doc, kind) ==
    /\ IsMap(doc)
    /\ "type" \in DOMAIN doc.m
    /\ doc.m["type"] = Str(kind)

SupportedMethod(method) ==
    /\ DOMAIN method # {}
    /\ Lower(RemoveHyphens(Get(method, "function", Sha256Name))) \in HashlibNames
    /\ Get(method, "ordering", "ascending") \in {"ascending", "descending", "unsorted"}

\* The subdirectories a Catalog or Collection looks into for nested
\* Collections and Catalogs.
NestedDirs(dir, kind) ==
    IF kind = "Collection" THEN dir.dirs
    ELSE IF HasDir(dir, "collections")
    THEN dir.dirs[DirIndex(dir, "collections")].dir.dirs
    ELSE <<>>

\* The kind of document a subdirectory is processed as.
NestedKind(dir, parent_kind) ==
    IF HasFile(dir, "collection") THEN "Collection"
    ELSE IF parent_kind = "Collection" /\ HasFile(dir, "catalog") THEN "Catalog"
    ELSE "none"

ContainerFile(kind) == IF kind = "Catalog" THEN "catalog" ELSE "collection"

\* The ids of the sound Item documents a Collection holds, alongside its
\* own document or alone in a subdirectory.
SoundItems(dir, kind) ==
    IF kind # "Collection" THEN {}
    ELSE {NodeId(dir.files[k].doc, dir.files[k].name) :
             k \in {j \in 1..Len(dir.files) :
                       /\ dir.files[j].name # "collection"
                       /\ MarkedAs(dir.files[j].doc, "Feature")}}
         \cup {NodeId(dir.dirs[i].dir.files[1].doc, dir.dirs[i].dir.files[1].name) :
                  i \in {j \in 1..Len(dir.dirs) :
                            /\ NestedKind(dir.dirs[j].dir, kind) = "none"
                            /\ Len(dir.dirs[j].dir.files) = 1
                            /\ MarkedAs(dir.dirs[j].dir.files[1].doc, "Feature")}}

\* The nodes a walk that contains every per-node failure ends up with: for
\* each Catalog and Collection that is sound itself and is reached through
\* sound ancestors, its id, the id of its parent and the ids of its Items.
RECURSIVE Survivors(_, _, _, _)
Survivors(dir, kind, parent, inherited) ==
    LET doc == ReadFile(dir, ContainerFile(kind))
        method == StatedMethod(doc, inherited)
        id == NodeId(doc, ContainerFile(kind))
        nested == NestedDirs(dir, kind)
    IN  IF ~MarkedAs(doc, kind) \/ ~SupportedMethod(method) THEN {}
        ELSE {[id |-> id, parent |-> parent, items |-> SoundItems(dir, kind)]}
                 \cup UNION {Survivors(nested[i].dir, NestedKind(nested[i].dir, kind),
                                       id, method) :
                                i \in {j \in 1..Len(nested) :
                                          NestedKind(nested[j].dir, kind) # "none"}}

ChildIds(node) == {node["children"][i]["node_id"] : i \in 1..Len(node["children"])}

-----------------------------------------------------------------------------
(* Claims about explicit field lists, under SpecHash *)

\* The field list of the call is an explicit one.
ExplicitFields ==
    /\ "fields" \in DOMAIN hash_method
    /\ hash_method["fields"] \notin {<<"*">>, <<"all">>}

NamedFields == {hash_method["fields"][i] : i \in 1..Len(hash_method["fields"])}

\* The map of the named top-level fields the document has, the reserved
\* fields stripped at every depth.
SelectedMap ==
    Map([k \in (NamedFields \cap DOMAIN stac_object.m) \ MerkleFields |->
            remove_merkle_fields(stac_object.m[k])])

\* C16: under an explicit field list the object hash is the hash of the
\* canonical form of the map of the named top-level fields that the
\* document has, reserved fields stripped; a named field the document lacks
\* is skipped without error, and a change to a field that is not named
\* leaves the hash as it was.
C16_ExplicitFieldsSelectTopLevel ==
    (ExplicitFields /\ object_hash # NotCalled) =>
        /\ CallHashFunc # <<>> =>
               object_hash = Ok(HexDigest(CallHashFunc, JsonDumps(SelectedMap)))
        /\ (base_hash # NotCalled /\ edits # <<>>
               /\ \A i \in 1..Len(edits) :
                      edits[i] \in {"id", "geometry", "properties"} \ NamedFields)
               => object_hash = base_hash

\* A hash under a list that names a field the document lacks and one it
\* has, taken again after a field that is not named was changed.
C16_Witness ==
    /\ ExplicitFields
    /\ object_hash.ok
    /\ base_hash.ok
    /\ edits = <<"geometry">>
    /\ NamedFields \ DOMAIN stac_object.m # {}
    /\ NamedFields \cap DOMAIN stac_object.m # {}

-----------------------------------------------------------------------------
(* Claims about unsupported functions and orderings, under SpecRoot *)

UnsupportedFunction(method) ==
    Lower(RemoveHyphens(Get(method, "function", Sha256Name))) \notin HashlibNames

UnsupportedOrdering(method) ==
    Get(method, "ordering", "ascending") \notin {"ascending", "descending", "unsorted"}

RootCalled == merkle_root # NotCalled

-----------------------------------------------------------------------------
(* Claims about the resolution of hash function names, under SpecProof *)

\* The lowercase, hyphen-free form of a name.
Normalised(name) == Lower(RemoveHyphens(name))

WithNormalisedFunction(method) ==
    SetKey(method, "function", Normalised(Get(method, "function", Sha256Name)))

ProofCalled == is_valid # ProofNotCalled

\* C18: every component that resolves a hash function name resolves a name
\* as it resolves the lowercase, hyphen-free form of it: the object hasher,
\* the builder's reducer, the verifier's reducer and the inclusion-proof
\* verifier give the same outcome for "SHA-256" as for "sha256".
C18_Original_NamesResolveAlikeEverywhere ==
    ProofCalled =>
        /\ \A doc \in HashDocs :
               compute_merkle_object_hash(doc, hash_method)
                   = compute_merkle_object_hash(doc, WithNormalisedFunction(hash_method))
        /\ compute_merkle_root(call_hashes, hash_method)
               = compute_merkle_root(call_hashes, WithNormalisedFunction(hash_method))
        /\ verifier_compute_merkle_root(call_hashes, hash_method)
               = verifier_compute_merkle_root(call_hashes,
                                              WithNormalisedFunction(hash_method))
        /\ is_valid = verify_merkle_proof(collection_hash, proof_hashes,
                                          proof_positions, proof_merkle_root,
                                          Normalised(hash_function))

\* The text is an even number of hexadecimal digits.
HexText(text) ==
    /\ Len(text) % 2 = 0
    /\ \A i \in 1..Len(text) :
           \E d \in 1..16 : Lower(<<text[i]>>) = <<HexDigits[d]>>

LeftOrRight(position) == Lower(position) \in {Left, Right}

MalformedProof ==
    \/ Len(proof_hashes) # Len(proof_positions)
    \/ ~HexText(collection_hash)
    \/ \E k \in 1..Len(proof_hashes) : ~HexText(proof_hashes[k])
    \/ \E k \in 1..Len(proof_positions) : ~LeftOrRight(proof_positions[k])

\* C19: verify_merkle_proof exits with an error, returning no boolean,
\* whenever the two lists differ in length, the target digest or a sibling
\* digest is not hexadecimal, or a position is neither left nor right
\* (letter case aside), at whatever step of the path the bad entry is.
C19_MalformedProofExits ==
    (ProofCalled /\ MalformedProof) => ~is_valid.ok

\* A call that exited on a path of two or more steps whose only bad entry
\* is in the last step, under a function name the verifier supports.
C19_Witness ==
    /\ ProofCalled
    /\ ~is_valid.ok
    /\ ProofHashFunc # <<>>
    /\ Len(proof_hashes) >= 2
    /\ Len(proof_hashes) = Len(proof_positions)
    /\ HexText(collection_hash)
    /\ \A k \in 1..(Len(proof_hashes) - 1) :
           HexText(proof_hashes[k]) /\ LeftOrRight(proof_positions[k])
    /\ HexText(proof_hashes[Len(proof_hashes)])
    /\ ~LeftOrRight(proof_positions[Len(proof_positions)])

-----------------------------------------------------------------------------
(* Claims about the layout of sub-collections, under SpecTree *)

\* The directories of a tree that hold a collection.json.
RECURSIVE CollectionDirs(_)
CollectionDirs(dir) ==
    (IF HasFile(dir, "collection") THEN {dir} ELSE {})
        \cup UNION {CollectionDirs(dir.dirs[i].dir) : i \in 1..Len(dir.dirs)}

\* The directory a Collection node of the summary was built from.
DirectoryOf(node) ==
    CHOOSE dir \in CollectionDirs(catalog_dir) :
        NodeId(ReadFile(dir, "collection"), "") = node["node_id"]

\* The sub-collections of a collection directory as the tests lay them out:
\* <collection dir>/collections/<id>/collection.json
LaidOutSubCollections(dir) ==
    IF ~HasDir(dir, "collections") THEN {}
    ELSE LET collections == dir.dirs[DirIndex(dir, "collections")].dir.dirs
         IN  {collections[i].dir :
                 i \in {j \in 1..Len(collections) :
                           /\ HasFile(collections[j].dir, "collection")
                           /\ MarkedAs(ReadFile(collections[j].dir, "collection"),
                                       "Collection")}}

\* C20: the summary of a collection lists as children the sub-collections
\* stored at <collection dir>/collections/<id>/collection.json, each with
\* its own Items as its children.
C20_Original_SubCollectionsUnderCollectionsDir ==
    (Saved /\ tree_edits = <<>>) =>
        \A node \in ContainerNodes :
            node["type"] = "Collection" =>
                \A sub \in LaidOutSubCollections(DirectoryOf(node)) :
                    \E i \in 1..Len(node["children"]) :
                        /\ node["children"][i]["type"] = "Collection"
                        /\ node["children"][i]["node_id"]
                               = NodeId(ReadFile(sub, "collection"), "")
                        /\ SoundItems(sub, "Collection")
                               \subseteq ChildIds(node["children"][i])

-----------------------------------------------------------------------------
(* Claims about the Items of a Collection, under SpecTree *)

\* The children of a node that are Items named id.
ItemChildren(node, id) ==
    {i \in 1..Len(node["children"]) :
        /\ node["children"][i]["type"] = "Item"
        /\ node["children"][i]["node_id"] = id}

\* The subdirectories of a collection directory that hold no collection or
\* catalog document and are no Item container: no JSON document, several,
\* or one that is no Item.
OtherSubdirectories(dir) ==
    {i \in 1..Len(dir.dirs) :
        /\ NestedKind(dir.dirs[i].dir, "Collection") = "none"
        /\ \/ Len(dir.dirs[i].dir.files) # 1
           \/ ~MarkedAs(dir.dirs[i].dir.files[1].doc, "Feature")}

-----------------------------------------------------------------------------
(* Claims about the discrepancies of a verification, under SpecTree *)

\* What a node contributes to the node above it when the summary is
\* recomputed: the stored object hash of an Item; for a Collection or a
\* Catalog the reduction of its children's contributions and its own
\* stored object hash.
RECURSIVE Contribution(_)
Contribution(node) ==
    IF node["type"] = "Item" THEN node["merkle:object_hash"]
    ELSE LET children == Get(node, "children", <<>>)
             below == SelectSeq([i \in 1..Len(children) |-> Contribution(children[i])],
                                NotEmpty)
             own == Get(node, "merkle:object_hash", <<>>)
         IN  verifier_compute_merkle_root(
                 below \o (IF own # <<>> THEN <<own>> ELSE <<>>),
                 Get(node, "merkle:hash_method", DefaultHashMethod)).value

\* The Collection and Catalog nodes whose stored root is not that value.
Mismatching ==
    {node \in ContainerNodes : Get(node, "merkle:root", <<>>) # Contribution(node)}

\* C22: a verification that walks the summary to its end records a
\* discrepancy for exactly the Collection and Catalog nodes whose stored
\* merkle:root differs from the root recomputed from their children's
\* recomputed contributions and their own stored object hash; a mismatch
\* at one node stops nothing: every mismatching node is in the list after
\* the one pass, once.
C22_DiscrepanciesAreExactlyTheMismatches ==
    (VerifyCalled /\ verification_result.ok) =>
        /\ {discrepancies[i] : i \in 1..Len(discrepancies)}
               = {Discrepancy(node) : node \in Mismatching}
        /\ Len(discrepancies) = Cardinality(Mismatching)

\* A verification that recorded a mismatch at a nested Collection, at the
\* Collection above it and at the Catalog.
C22_Witness ==
    /\ VerifyCalled /\ verification_result.ok
    /\ tree_edits # <<>>
    /\ Len(discrepancies) = 3
    /\ Cardinality(ContainerNodes) = 3

-----------------------------------------------------------------------------
(* Claims about nodes the verifier cannot process, under SpecTree *)

\* The one change since the build left a node the verifier cannot process.
DamagedNode ==
    IF Len(tree_edits) = 1 /\ tree_edits[1].kind = "damage"
    THEN {tree_edits[1].ids[1]} ELSE {}

\* C23: when one node of the summary cannot be processed (no type, an Item
\* without object hash, an object hash that is not hexadecimal, an
\* unsupported function or ordering on the node), the verification still
\* walks the summary to its end and records a discrepancy for that node.
C23_Original_NodeFailuresAreContained ==
    (VerifyCalled /\ DamagedNode # {}) =>
        /\ verification_result.ok
        /\ \A id \in DamagedNode : DiscrepancyAt(id)

-----------------------------------------------------------------------------
(* Claims about the documents a build writes, under SpecTree *)

\* The list is in ascending order.
IsSorted(list) ==
    \A i \in 1..(Len(list) - 1) : StrRank(list[i].s) <= StrRank(list[i + 1].s)

\* C24: after process_item has processed an Item, the stac_extensions list
\* of the persisted Item document holds the integrity-extension marker and
\* is sorted, whatever the list held before, a list that held the marker in
\* unsorted order included.
C24_Original_ItemExtensionsSortedWithMarker ==
    (Saved /\ tree_edits = <<>>) =>
        \A node \in SummaryNodes :
            node["type"] = "Item" =>
                LET exts == DeclaredExtensions(ItemDocumentOf(node))
                IN  /\ HasMarker(exts)
                    /\ IsSorted(exts)

-----------------------------------------------------------------------------
(* Claims about the order of the steps of a build, under SpecTree *)

\* The step of the log at which the processing of a document began.
BeganAt(id) == CHOOSE b \in 1..Len(build_log) :
                   build_log[b].step = "began" /\ build_log[b].id = id

\* The processing of the document named id ended before the k-th step.
EndedBefore(id, k, ends) ==
    \E e \in 1..(k - 1) : build_log[e].id = id /\ build_log[e].step \in ends

\* C25: in every build the root of a Collection or Catalog is computed,
\* and its document written, only after every child, and everything below
\* it, has finished processing and been written: no root is computed from
\* a child whose processing is pending.
C25_RootAfterAllChildren ==
    Built =>
        /\ \A k \in 1..Len(build_log) :
               build_log[k].step = "root" =>
                   /\ \A child \in build_log[k].children :
                          EndedBefore(child, k, {"written"})
                   /\ \A j \in (BeganAt(build_log[k].id) + 1)..(k - 1) :
                          build_log[j].step = "began" =>
                              EndedBefore(build_log[j].id, k, {"written", "skipped"})
                   /\ k < Len(build_log)
                   /\ build_log[k + 1] = Step("written", build_log[k].id, {})
        /\ Saved /\ tree_edits = <<>> =>
               \A node \in ContainerNodes :
                   \E k \in 1..Len(build_log) :
                       build_log[k] = Step("root", node["node_id"], ChildIds(node))

\* A build that computed the root of a Collection from an Item and from a
\* nested Collection that has an Item of its own.
C25_Witness ==
    /\ Saved
    /\ \E k \in 1..Len(build_log) :
           /\ build_log[k].step = "root"
           /\ \E j \in 1..(k - 1) :
                  /\ build_log[j].step = "root"
                  /\ build_log[j].children # {}
                  /\ build_log[j].id \in build_log[k].children
                  /\ build_log[k].children # {build_log[j].id}

\* The object hash a document holds: in properties for an Item, at the top
\* level for a Collection or a Catalog.
StoredObjectHash(doc) ==
    IF MarkedAs(doc, "Feature") THEN doc.m["properties"].m["merkle:object_hash"].h
    ELSE doc.m["merkle:object_hash"].h

\* C26: after a build every document written is consistent with itself:
\* compute_merkle_object_hash of the document as it was written back, under
\* the hash method it was built with, is the merkle:object_hash the
\* document holds; for Items, Collections and Catalogs, whether or not the
\* document declared the extension marker before the build.
C26_Original_WrittenDocumentsHashToStoredHash ==
    (Saved /\ tree_edits = <<>>) =>
        \A node \in ContainerNodes :
            LET method == DocumentOf(node).m["merkle:hash_method"].hm
            IN  /\ Ok(StoredObjectHash(DocumentOf(node)))
                       = compute_merkle_object_hash(DocumentOf(node), method)
                /\ \A i \in 1..Len(node["children"]) :
                       node["children"][i]["type"] = "Item" =>
                           LET item == ItemDocumentOf(node["children"][i])
                           IN  Ok(StoredObjectHash(item))
                                   = compute_merkle_object_hash(item, method)

\* C27: the build is idempotent: a second process_catalog on the tree the
\* first one wrote, nothing else changed, returns the same summary and
\* leaves every document as the first build wrote it.
C27_Original_SecondBuildChangesNothing ==
    (Rebuilt /\ tree_edits = <<>>) =>
        /\ rebuilt_tree = merkle_tree
        /\ rebuilt_dir = catalog_dir

-----------------------------------------------------------------------------
(* Claims about a replaced object hash, under SpecTree *)

\* The one change since the build replaced the stored object hash of a node.
ObjectHashReplaced ==
    /\ Len(tree_edits) = 1
    /\ tree_edits[1].kind = "object_hash"
    /\ relists = 0 /\ ~RelistedBuilt

\* The summary was consistent before the change: verified as the build
\* returned it, it had a matching top-level root and no discrepancy.
WasConsistent ==
    \E verification \in
            {verify_merkle_tree(process_catalog(OriginalDir, root_hash_method).node)} :
        /\ verification.result = Verified(TRUE)
        /\ verification.discrepancies = <<>>

\* The ids of the Collections and Catalogs from the top node down to the
\* node named id, that node included when it is one of them.
Enclosing(id) ==
    LET path == CHOOSE p \in NodePaths(merkle_tree) :
                    NodeAt(merkle_tree, p)["node_id"] = id
    IN  {NodeAt(merkle_tree, SubSeq(path, 1, n))["node_id"] :
            n \in {m \in 0..Len(path) :
                      NodeAt(merkle_tree, SubSeq(path, 1, m))["type"] # "Item"}}

\* C28: when the stored merkle:object_hash of one node of a consistent
\* summary, an Item, a Collection or a Catalog, is replaced by another
\* digest and nothing else is changed, the verification records a
\* discrepancy at the nearest enclosing Collection or Catalog (the node
\* itself when it is one) and at every node above it up to the top, and
\* reports failure.
C28_ReplacedObjectHashIsDetectedUpToTheTop ==
    (VerifyCalled /\ ObjectHashReplaced /\ WasConsistent) =>
        /\ \A id \in Enclosing(tree_edits[1].ids[1]) : DiscrepancyAt(id)
        /\ verification_result = Verified(FALSE)
        /\ VerifyExitStatus(verification_result) = 1

\* The object hash of an Item two levels below the Catalog was replaced in
\* a consistent summary, which was then verified.
C28_Witness ==
    /\ VerifyCalled /\ ObjectHashReplaced /\ WasConsistent
    /\ Cardinality(Enclosing(tree_edits[1].ids[1])) = 3
    /\ \E node \in SummaryNodes :
           node["node_id"] = tree_edits[1].ids[1] /\ node["type"] = "Item"

-----------------------------------------------------------------------------
(* Claims about what a skipped node leaves behind, under SpecTree *)

\* The directories of the tree whose Collection or Catalog the build began
\* to process and skipped.
SkippedDirs ==
    {path \in DirPaths(OriginalDir) :
        LET dir == ListingAt(OriginalDir, path)
            kind == IF HasFile(dir, "catalog") THEN "Catalog" ELSE "Collection"
        IN  /\ HasFile(dir, "catalog") \/ HasFile(dir, "collection")
            /\ \E k \in 1..Len(build_log) :
                   build_log[k] = Step("skipped",
                                       NodeId(ReadFile(dir, ContainerFile(kind)),
                                              ContainerFile(kind)), {})}

\* C30: when the processing of a Collection or Catalog fails and the node
\* is skipped, the build has rewritten no document of its subtree: not the
\* node's own document, nor that of an Item or of a nested Collection or
\* Catalog below it.
C30_Original_SkippedNodeLeavesSubtreeUntouched ==
    (Built /\ relists = 0 /\ ~RelistedBuilt /\ tree_edits = <<>>) =>
        \A path \in SkippedDirs :
            ListingAt(catalog_dir, path) = ListingAt(OriginalDir, path)

-----------------------------------------------------------------------------
(* Claims about the root the proof command compares with, under SpecProof *)

MainRan == main_outcome # MainNotRun

\* The sibling path of the document reconstructs the root.
PathReconstructs(root) ==
    \E trace \in {proof_trace(collection_hash, proof_hashes, proof_positions,
                              hash_function)} :
        /\ trace.ok
        /\ Lower(ToHex(trace.value[Len(trace.value)])) = Lower(root)

\* C29: when the caller hands the command a trusted root as --merkle-root,
\* the command reports a successful verification only if the sibling path
\* reconstructs that root: a root held in the document under verification
\* (proof.catalog_root) never takes its place.
C29_Original_CallerRootIsTheOneCompared ==
    (MainRan /\ merkle_root_option # <<>>) =>
        /\ main_outcome.merkle_root = merkle_root_option
        /\ main_outcome.reported = "Verification successful" =>
               PathReconstructs(merkle_root_option)

====
